---- MODULE Spec2Model ----
(***************************************************************************)
(* A model of the periodic analytics-and-notification engine of the       *)
(* AI-Fridge-Elf backend: the scheduler lifecycle (services/scheduler.py, *)
(* main.py) and the three batch jobs it runs against the data store and   *)
(* the LINE notifier (services/scheduler.py, services/line_bot.py,        *)
(* services/monthly_stats_service.py).                                    *)
(***************************************************************************)
EXTENDS Integers, Sequences, FiniteSets, Bags, TLC

VARIABLES
    \* ---- scheduler.py: the module-level BackgroundScheduler ----
    running,      \* scheduler.running
    jobs,         \* the job store: sequence of registered job ids
    pending,      \* jobs added while stopped, waiting for start()
    inflight,     \* job ids whose function is executing in the executor
    call,         \* the calling thread: "idle", or blocked inside shutdown(wait=True)
    trace,        \* history: the start_scheduler()/stop_scheduler() calls made so far
    lifespan,     \* main.py lifespan: "created", "started", "failed", "stopped"
    \* ---- the data store, as the jobs read it ----
    today,                  \* datetime.now(TAIWAN_TZ).date()
    notification_settings,  \* user id -> NotificationSettings row
    food_items,             \* the FoodItem table: a bag of rows
    \* ---- check_expiring_items() ----
    expPc,        \* "idle", "loop", "done"
    expList,      \* settings_list still to iterate (user ids)
    expVisited,   \* users whose iteration has run, in order
    expRaised,    \* users whose iteration raised
    expCalls,     \* send_expiry_notification(to, items) calls made, in order
    \* ---- check_space_usage() ----
    spPc,         \* "idle", "users", "fridges", "done"
    spList,       \* settings_list still to iterate (user ids)
    spFridges,    \* fridges of the current user still to iterate
    spUser,       \* the user of the current iteration (0: none)
    spVisited,    \* users whose iteration has run, in order
    spRaised,     \* users and fridges whose processing raised
    spEvaluated,  \* fridges whose usage has been computed
    spCalls,      \* send_space_warning(to, usage_percentage) calls made, in order
    \* ---- the monthly report: the scheduled job and the manual send-all ----
    moPc,         \* "idle", "compute", "dispatch", "tasks", "done"
    moTrigger,    \* "none", "scheduler" (the job), "manual" (the route)
    moUsers,      \* users whose statistics are still to be computed
    moFailed,     \* users whose statistics calculation raised
    all_stats,    \* the statistics computed, one record per user
    moList,       \* entries of all_stats still to dispatch
    success_count,\* the job's success counter
    coroutines,   \* coroutine objects created and never awaited
    pushes,       \* line_bot_api.push_message(to, message) calls made, in order
    moPrev,       \* what the previous monthly run did (trigger "none": no run yet)
    \* ---- the job functions and the scheduler's executor ----
    db_sessions,  \* the jobs whose SessionLocal() session is open
    escaped,      \* the jobs an exception of which reached the executor
    \* ---- monthly_stats_service.py: one call of the statistics functions ----
    archived_items,   \* the rows of the archived-items query of the window
    purchased_items,  \* the rows of the purchased-items query of the window
    stats_call,       \* the call made and how it went (op "none": no call yet)
    stats_result,     \* what the call returned
    \* ---- routes/notifications.py ----
    settings_rows,    \* the NotificationSettings table: the rows, in creation order
    settings_log,     \* the requests served: op, user, update, status, body
    \* ---- routes/fridges.py ----
    compartments,     \* the FridgeCompartment table: id -> [fridge_id, sort_order]
    reorder_log       \* the reorder requests served: input, status, table before

schedVars == <<running, jobs, pending, inflight, call, trace, lifespan>>

dataVars == <<today, notification_settings, food_items>>

expVars == <<expPc, expList, expVisited, expRaised, expCalls>>

spVars == <<spPc, spList, spFridges, spUser, spVisited, spRaised, spEvaluated, spCalls>>

moVars == <<moPc, moTrigger, moUsers, moFailed, all_stats, moList, success_count,
           coroutines, pushes, moPrev>>

resVars == <<db_sessions, escaped>>

jobVars == <<expVars, spVars, moVars, resVars>>

statsVars == <<archived_items, purchased_items, stats_call, stats_result>>

settingsVars == <<settings_rows, settings_log>>

fridgeVars == <<compartments, reorder_log>>

apiVars == <<statsVars, settingsVars, fridgeVars>>

vars == <<schedVars, dataVars, apiVars, jobVars>>

(***************************************************************************)
(* Bounds of the model.                                                    *)
(***************************************************************************)
MaxCalls == 4

NumUsers == 3

\* The number of requests to the notification-settings routes considered.
MaxRequests == 2

(***************************************************************************)
(* Scheduler                                                               *)
(***************************************************************************)

\* The ids of the three add_job() calls, in registration order.
JobIds == <<"check_expiring_items", "check_space_usage", "send_monthly_stats">>

JobIdSet == {JobIds[i] : i \in 1..Len(JobIds)}

Count(seq, x) == Cardinality({i \in 1..Len(seq) : seq[i] = x})

Min(a, b) == IF a < b THEN a ELSE b

\* A store that would keep both entries under one id (replace_existing=False
\* without the conflict check).
RealAddJobNoReplace(store, id) == Append(store, id)

\* add_job(..., replace_existing=True) reaching the job store: a job whose id
\* is already stored is updated in place, any other is appended.
RealAddJob(store, id) ==
    IF Count(store, id) > 0 THEN store ELSE Append(store, id)

RECURSIVE RealAddAll(_, _)
RealAddAll(store, ids) ==
    IF ids = <<>> THEN store
    ELSE RealAddAll(RealAddJob(store, Head(ids)), Tail(ids))

\* The steps of the try block of start_scheduler(): three add_job() calls and
\* scheduler.start(). `done` is the number of steps that completed before one
\* raised (4: none raised).
StartSteps == 4

\* While the scheduler is stopped add_job() only queues the job.
PendingAfter(done) == pending \o SubSeq(JobIds, 1, Min(done, 3))

\* A start_scheduler() whose handler logged the error without re-raising.
StartOutcomeSwallowed(isRunning, done) ==
    IF isRunning THEN "noop" ELSE "ok"

\* What start_scheduler() reports to its caller.
StartOutcome(isRunning, done) ==
    IF isRunning THEN "noop"
    ELSE IF done < StartSteps THEN "raised"
    ELSE "ok"

\* start_scheduler() with the running check removed: the jobs are registered
\* again and scheduler.start() raises SchedulerAlreadyRunningError.
StartBodyUnguarded(done) ==
    /\ running' = (running \/ done = StartSteps)
    /\ jobs' = IF running THEN RealAddAll(jobs, JobIds)
               ELSE IF done = StartSteps THEN RealAddAll(jobs, PendingAfter(done))
               ELSE jobs
    /\ pending' = IF running \/ done = StartSteps THEN <<>> ELSE PendingAfter(done)
    /\ trace' = Append(trace, [op |-> "start",
                               outcome |-> IF running \/ done < StartSteps
                                           THEN "raised" ELSE "ok",
                               waited |-> {}])

\* start_scheduler(): the effect on the scheduler of one call.
StartBody(done) ==
    IF running
    THEN /\ trace' = Append(trace, [op |-> "start", outcome |-> "noop", waited |-> {}])
         /\ UNCHANGED <<running, jobs, pending>>
    ELSE /\ running' = (done = StartSteps)
         /\ jobs' = IF done = StartSteps
                    THEN RealAddAll(jobs, PendingAfter(done))
                    ELSE jobs
         /\ pending' = IF done = StartSteps THEN <<>> ELSE PendingAfter(done)
         /\ trace' = Append(trace, [op |-> "start",
                                    outcome |-> StartOutcome(FALSE, done),
                                    waited |-> {}])

CanCall == call = "idle" /\ Len(trace) < MaxCalls

\* A direct call of start_scheduler().
start_scheduler ==
    /\ CanCall
    /\ \E done \in 0..StartSteps : StartBody(done)
    /\ UNCHANGED <<inflight, call, lifespan, dataVars, apiVars, jobVars>>

\* lifespan(), startup half: start_scheduler() and, if it returns, the
\* application is started; an exception ends the startup.
lifespan_startup ==
    /\ lifespan = "created"
    /\ CanCall
    /\ \E done \in 0..StartSteps :
          /\ StartBody(done)
          /\ lifespan' = IF StartOutcome(running, done) = "raised"
                         THEN "failed" ELSE "started"
    /\ UNCHANGED <<inflight, call, dataVars, apiVars, jobVars>>

\* stop_scheduler() on a stopped scheduler: a warning and nothing else.
stop_scheduler_noop ==
    /\ CanCall
    /\ ~running
    /\ trace' = Append(trace, [op |-> "stop", outcome |-> "noop", waited |-> {}])
    /\ UNCHANGED <<running, jobs, pending, inflight, call, lifespan, dataVars, apiVars, jobVars>>

\* stop_scheduler(), entering scheduler.shutdown(wait=True): the scheduler is
\* marked stopped, no further job is submitted, and the caller blocks.
StopBegin(caller) ==
    /\ CanCall
    /\ running
    /\ running' = FALSE
    /\ call' = caller
    /\ trace' = Append(trace, [op |-> "stop", outcome |-> "ok", waited |-> inflight])
    /\ UNCHANGED <<jobs, pending, inflight, dataVars, apiVars, jobVars>>

stop_scheduler_begin == StopBegin("stopping") /\ UNCHANGED lifespan

lifespan_shutdown_begin ==
    /\ lifespan = "started"
    /\ StopBegin("lifespan_stopping")
    /\ UNCHANGED lifespan

\* shutdown(wait=False) would return at once.
ShutdownReturnsNoWait == TRUE

\* shutdown(wait=True) returns once the executor has no job left running.
ShutdownReturns == inflight = {}

\* stop_scheduler() returning: the executor is drained and the (memory) job
\* store is emptied by its shutdown.
stop_scheduler_return ==
    /\ call \in {"stopping", "lifespan_stopping"}
    /\ ShutdownReturns
    /\ call' = "idle"
    /\ jobs' = <<>>
    /\ lifespan' = IF call = "lifespan_stopping" THEN "stopped" ELSE lifespan
    /\ UNCHANGED <<running, pending, inflight, trace, dataVars, apiVars, jobVars>>

\* The runner submits a due job to the executor (at most one instance of a
\* job at a time).
FireJob(j) ==
    /\ running
    /\ Count(jobs, j) > 0
    /\ j \notin inflight
    /\ inflight' = inflight \cup {j}
    /\ UNCHANGED <<running, jobs, pending, call, trace, lifespan, dataVars, apiVars, jobVars>>

\* A job function returns.
JobReturns(j) ==
    /\ j \in inflight
    /\ inflight' = inflight \ {j}
    /\ UNCHANGED <<running, jobs, pending, call, trace, lifespan, dataVars, apiVars, jobVars>>

SchedInit ==
    /\ running = FALSE
    /\ jobs = <<>>
    /\ pending = <<>>
    /\ inflight = {}
    /\ call = "idle"
    /\ trace = <<>>
    /\ lifespan = "created"

SchedNext ==
    \/ start_scheduler
    \/ lifespan_startup
    \/ stop_scheduler_noop
    \/ stop_scheduler_begin
    \/ lifespan_shutdown_begin
    \/ stop_scheduler_return
    \/ \E j \in JobIdSet : FireJob(j)
    \/ \E j \in JobIdSet : JobReturns(j)

(***************************************************************************)
(* Dates (datetime.date) as records [y, m, d]                              *)
(***************************************************************************)

Date(y, m, d) == [y |-> y, m |-> m, d |-> d]

\* A NULL expiry_date.
NoDate == Date(0, 0, 0)

IsLeap(y) == (y % 4 = 0) /\ ((y % 100 # 0) \/ (y % 400 = 0))

DaysInMonth(y, m) ==
    IF m = 2 THEN (IF IsLeap(y) THEN 29 ELSE 28)
    ELSE IF m \in {4, 6, 9, 11} THEN 30
    ELSE 31

RECURSIVE DaysBeforeMonth(_, _)
DaysBeforeMonth(y, m) ==
    IF m = 1 THEN 0 ELSE DaysBeforeMonth(y, m - 1) + DaysInMonth(y, m - 1)

DaysBeforeYear(y) ==
    (y - 1) * 365 + ((y - 1) \div 4) - ((y - 1) \div 100) + ((y - 1) \div 400)

\* date.toordinal()
ToOrdinal(dt) == DaysBeforeYear(dt.y) + DaysBeforeMonth(dt.y, dt.m) + dt.d

NextDay(dt) ==
    IF dt.d < DaysInMonth(dt.y, dt.m) THEN Date(dt.y, dt.m, dt.d + 1)
    ELSE IF dt.m < 12 THEN Date(dt.y, dt.m + 1, 1)
    ELSE Date(dt.y + 1, 1, 1)

\* date + timedelta(days=n), n >= 0
RECURSIVE AddDays(_, _)
AddDays(dt, n) == IF n = 0 THEN dt ELSE AddDays(NextDay(dt), n - 1)

\* a <= b on dates: year, then month, then day.
DateLE(a, b) ==
    \/ a.y < b.y
    \/ a.y = b.y /\ a.m < b.m
    \/ a.y = b.y /\ a.m = b.m /\ a.d <= b.d

DateLT(a, b) == DateLE(a, b) /\ a # b

Pad2(n) == IF n < 10 THEN "0" \o ToString(n) ELSE ToString(n)

\* date.isoformat() for four-digit years: "YYYY-MM-DD"
IsoFormat(dt) == ToString(dt.y) \o "-" \o Pad2(dt.m) \o "-" \o Pad2(dt.d)

(***************************************************************************)
(* The data store                                                          *)
(***************************************************************************)

Users == 1..NumUsers

\* The Fridge table: user 1 owns fridges 1 and 2, user 2 owns fridge 3 and
\* every other user owns none.
FridgeIds == {1, 2, 3}

Fridge_user_id(f) == IF f <= 2 THEN 1 ELSE 2

\* User.line_user_id
line_user_id(u) == "U" \o ToString(u)

Settings(eOn, eDays, sOn, sThreshold) ==
    [expiry_warning_enabled |-> eOn,
     expiry_warning_days |-> eDays,
     space_warning_enabled |-> sOn,
     space_warning_threshold |-> sThreshold]

\* The row created the first time a user's settings are read or written.
DefaultSettings == Settings(TRUE, 3, TRUE, 80)

Item(name, status, expiry) ==
    [name |-> name, status |-> status, expiry_date |-> expiry]

\* The FoodItem table as a bag of rows [fridge_id, name, status, expiry_date]
\* (rows that agree on these columns are counted, not told apart), from the
\* content of each fridge.
Table(content) ==
    LET rows == {[fridge_id |-> f, name |-> i.name, status |-> i.status,
                  expiry_date |-> i.expiry_date] :
                      <<f, i>> \in {fi \in FridgeIds \X UNION {DOMAIN content[g] : g \in FridgeIds} :
                                        fi[2] \in DOMAIN content[fi[1]]}}
    IN [r \in rows |-> content[r.fridge_id][Item(r.name, r.status, r.expiry_date)]]

RECURSIVE SumCopies(_, _)
SumCopies(bag, S) ==
    IF S = {} THEN 0
    ELSE LET x == CHOOSE x \in S : TRUE
         IN bag[x] + SumCopies(bag, S \ {x})

\* The runs are taken one after another: no job function is in the middle of
\* its run.
NoJobRunning ==
    /\ expPc \in {"idle", "done"}
    /\ spPc \in {"idle", "done"}
    /\ moPc \in {"idle", "done"}

(***************************************************************************)
(* check_expiring_items()                                                  *)
(***************************************************************************)

RECURSIVE Ascending(_)
Ascending(S) ==
    IF S = {} THEN <<>>
    ELSE LET x == CHOOSE x \in S : \A y \in S : x <= y
         IN <<x>> \o Ascending(S \ {x})

\* A settings_list kept where both scans can reach it: the expiry scan finds
\* what a running space scan has left there.
SharedSettingsList ==
    IF spPc \in {"users", "fridges"}
    THEN spList
    ELSE Ascending({u \in Users : notification_settings[u].expiry_warning_enabled})

\* db.query(NotificationSettings).filter(expiry_warning_enabled == True).all()
ExpirySettingsList ==
    Ascending({u \in Users : notification_settings[u].expiry_warning_enabled})

\* A filter that leaves out the item expiring on the warning date itself.
ExpiringFilterStrict(r, u, warning_date) ==
    /\ Fridge_user_id(r.fridge_id) = u
    /\ r.expiry_date # NoDate
    /\ DateLT(r.expiry_date, warning_date)
    /\ r.status = "active"

\* The filter of the FoodItem query, joined with Fridge.
ExpiringFilter(r, u, warning_date) ==
    /\ Fridge_user_id(r.fridge_id) = u
    /\ r.expiry_date # NoDate
    /\ DateLE(r.expiry_date, warning_date)
    /\ r.status = "active"

\* expiring_items of one user
ExpiringItems(u) ==
    LET warning_date == AddDays(today, notification_settings[u].expiry_warning_days)
        hit == {r \in DOMAIN food_items : ExpiringFilter(r, u, warning_date)}
    IN [r \in hit |-> food_items[r]]

\* The distance to the expiry date without its sign.
DaysRemainingAbs(expiry_date, today_taiwan) ==
    LET n == ToOrdinal(expiry_date) - ToOrdinal(today_taiwan)
    IN IF n < 0 THEN -n ELSE n

\* (item.expiry_date - today_taiwan).days
DaysRemaining(expiry_date, today_taiwan) ==
    ToOrdinal(expiry_date) - ToOrdinal(today_taiwan)

\* One entry of items_data.
ItemData(r) ==
    [name |-> r.name,
     expiry_date |-> IsoFormat(r.expiry_date),
     days_remaining |-> DaysRemaining(r.expiry_date, today)]

\* items_data: one entry per row of the query result, as a bag.
ItemsData(items) ==
    LET image == {ItemData(x) : x \in DOMAIN items}
    IN [y \in image |-> SumCopies(items, {x \in DOMAIN items : ItemData(x) = y})]

\* The exception of one user's iteration leaving the loop: the job-level
\* handler ends the run.
ExpiryUserErrorEscapes(rest) == [pc |-> "done", list |-> rest]

\* except Exception: log, continue
ExpiryUserError(rest) == [pc |-> "loop", list |-> rest]

\* db.close() as the last statement of the try block: it is reached only
\* when the loop has run to its end.
CloseAtEndOfTry(open, job, way) ==
    IF way = "completed" THEN open \ {job} ELSE open

\* finally: db.close(), whichever way the try block is left; open holds the
\* jobs whose session is open when the block is left.
CloseSession(open, job, way) == open \ {job}

\* The job-level "except Exception as e": the error is logged and nothing is
\* raised again, so nothing reaches the executor.
JobLevelHandler(job) == escaped

\* The settings query; when it raises the job-level handler logs and the
\* run ends.
check_expiring_items_begin ==
    /\ NoJobRunning
    /\ expPc = "idle"
    /\ \E raised \in BOOLEAN :
          IF raised
          THEN /\ expPc' = "done"
               /\ expList' = <<>>
               /\ expRaised' = {0}
               /\ escaped' = JobLevelHandler("expiry")
               /\ db_sessions' = CloseSession(db_sessions \cup {"expiry"}, "expiry", "query_failed")
          ELSE /\ expPc' = "loop"
               /\ expList' = ExpirySettingsList
               /\ expRaised' = {}
               /\ db_sessions' = db_sessions \cup {"expiry"}
               /\ UNCHANGED escaped
    /\ UNCHANGED <<expVisited, expCalls, schedVars, dataVars, apiVars, spVars, moVars>>

\* One iteration of the per-user loop.
check_expiring_items_user ==
    /\ expPc = "loop"
    /\ expList # <<>>
    /\ LET u == Head(expList)
           items == ExpiringItems(u)
       IN /\ expVisited' = Append(expVisited, u)
          /\ \E raised \in BOOLEAN :
                IF raised
                THEN /\ expRaised' = expRaised \cup {u}
                     /\ expPc' = ExpiryUserError(Tail(expList)).pc
                     /\ expList' = ExpiryUserError(Tail(expList)).list
                     /\ UNCHANGED expCalls
                ELSE /\ expCalls' = IF DOMAIN items # {}
                                    THEN Append(expCalls, [to |-> line_user_id(u),
                                                           user_id |-> u,
                                                           items |-> ItemsData(items)])
                                    ELSE expCalls
                     /\ expList' = Tail(expList)
                     /\ UNCHANGED <<expPc, expRaised>>
    /\ UNCHANGED <<schedVars, dataVars, apiVars, resVars, spVars, moVars>>

\* The executor starts the job in a thread of its pool while other jobs may
\* be running: the session and settings_list are locals of this call.
check_expiring_items_fire ==
    /\ expPc = "idle"
    /\ \E raised \in BOOLEAN :
          IF raised
          THEN /\ expPc' = "done"
               /\ expList' = <<>>
               /\ expRaised' = {0}
               /\ escaped' = JobLevelHandler("expiry")
               /\ db_sessions' = CloseSession(db_sessions \cup {"expiry"}, "expiry", "query_failed")
          ELSE /\ expPc' = "loop"
               /\ expList' = ExpirySettingsList
               /\ expRaised' = {}
               /\ db_sessions' = db_sessions \cup {"expiry"}
               /\ UNCHANGED escaped
    /\ UNCHANGED <<expVisited, expCalls, schedVars, dataVars, apiVars, spVars, moVars>>

\* The loop is over: the closing log line and db.close().
check_expiring_items_end ==
    /\ expPc = "loop"
    /\ expList = <<>>
    /\ expPc' = "done"
    /\ db_sessions' = CloseSession(db_sessions, "expiry", "completed")
    /\ UNCHANGED <<expList, expVisited, expRaised, expCalls, escaped>>
    /\ UNCHANGED <<schedVars, dataVars, apiVars, spVars, moVars>>

ExpiryIdle ==
    /\ expPc = "idle"
    /\ expList = <<>>
    /\ expVisited = <<>>
    /\ expRaised = {}
    /\ expCalls = <<>>

(***************************************************************************)
(* check_space_usage()                                                     *)
(***************************************************************************)

DEFAULT_MAX_ITEMS == 50

\* db.query(NotificationSettings).filter(space_warning_enabled == True).all()
SpaceSettingsList ==
    Ascending({u \in Users : notification_settings[u].space_warning_enabled})

\* db.query(Fridge).filter(Fridge.user_id == settings.user_id).all()
FridgesOf(u) == Ascending({f \in FridgeIds : Fridge_user_id(f) = u})

\* func.count(FoodItem.id) over the active rows of a fridge
ItemCount(f) ==
    SumCopies(food_items, {r \in DOMAIN food_items :
                               r.fridge_id = f /\ r.status = "active"})

\* ---- (item_count / DEFAULT_MAX_ITEMS) * 100 in binary64 arithmetic ----

RECURSIVE Pow2(_)
Pow2(k) == IF k = 0 THEN 1 ELSE 2 * Pow2(k - 1)

\* 2^k mod m
RECURSIVE Pow2Mod(_, _)
Pow2Mod(k, m) == IF k = 0 THEN 1 % m ELSE (2 * Pow2Mod(k - 1, m)) % m

\* The largest e >= 0 with d * 2^e <= n, for n >= d.
RECURSIVE LogUp(_, _)
LogUp(n, d) == IF 2 * d <= n THEN 1 + LogUp(n, 2 * d) ELSE 0

\* The smallest j >= 1 with d <= n * 2^j, for 0 < n < d.
RECURSIVE LogDown(_, _)
LogDown(n, d) == IF d <= 2 * n THEN 1 ELSE 1 + LogDown(2 * n, d)

\* floor(log2(n / d)): the binary exponent of the quotient.
Exponent(n, d) == IF n >= d THEN LogUp(n, d) ELSE 0 - LogDown(n, d)

IsPow2(n) == \E e \in 0..30 : Pow2(e) = n

\* The rounding of n / d to 53 significant bits: the quotient has exponent e1,
\* its significand is n * 2^(52 - e1) / d rounded to the nearest integer, and
\* the result is n / d + delta / (d * 2^(52 - e1)). (No tie arises: n * 2^k is
\* even and has remainder d / 2 = 25 for no k >= 1.)
DivisionError(n, d) ==
    LET k == 52 - Exponent(n, d)
        r == ((n % d) * Pow2Mod(k, d)) % d
    IN IF 2 * r < d THEN 0 - r ELSE d - r

Sign(x) == IF x < 0 THEN -1 ELSE IF x > 0 THEN 1 ELSE 0

Abs(x) == IF x < 0 THEN 0 - x ELSE x

\* usage_percentage as a binary64 value, given by the integer 100 * n / 50 it
\* approximates and the side on which it misses it: the exact product of the
\* rounded quotient and 100 is 2n + 2 * delta / 2^(52 - e1); it rounds back to
\* 2n unless it is more than half a unit in the last place of 2n away (the
\* unit below a power of two being half the unit above it).
UsagePercentage(item_count) ==
    LET scale == 100 \div DEFAULT_MAX_ITEMS
        whole == scale * item_count
    IN IF item_count = 0 THEN [whole |-> 0, err |-> 0]
       ELSE LET e1 == Exponent(item_count, DEFAULT_MAX_ITEMS)
                e2 == Exponent(whole, 1)
                delta == DivisionError(item_count, DEFAULT_MAX_ITEMS)
                half == IF delta < 0 /\ IsPow2(whole)
                        THEN e2 - e1 - 2 ELSE e2 - e1 - 1
                away == IF half >= 0
                        THEN scale * Abs(delta) > Pow2(half)
                        ELSE scale * Abs(delta) * Pow2(0 - half) > 1
            IN [whole |-> whole, err |-> IF away THEN Sign(delta) ELSE 0]

\* usage_percentage >= settings.space_warning_threshold (an integer column)
AtOrOverThreshold(usage, threshold) ==
    \/ usage.whole > threshold
    \/ usage.whole = threshold /\ usage.err >= 0

\* The exception of one fridge reaches the handler of the user's iteration:
\* the fridges of that user not yet visited are skipped.
SpaceFridgeError(rest) == [pc |-> "users", fridges |-> <<>>]

check_space_usage_begin ==
    /\ NoJobRunning
    /\ spPc = "idle"
    /\ \E raised \in BOOLEAN :
          IF raised
          THEN /\ spPc' = "done"
               /\ spList' = <<>>
               /\ spRaised' = {<<"settings", 0>>}
               /\ escaped' = JobLevelHandler("space")
               /\ db_sessions' = CloseSession(db_sessions \cup {"space"}, "space", "query_failed")
          ELSE /\ spPc' = "users"
               /\ spList' = SpaceSettingsList
               /\ spRaised' = {}
               /\ db_sessions' = db_sessions \cup {"space"}
               /\ UNCHANGED escaped
    /\ UNCHANGED <<spFridges, spUser, spVisited, spEvaluated, spCalls>>
    /\ UNCHANGED <<schedVars, dataVars, apiVars, expVars, moVars>>

\* The executor starts the job in a thread of its pool while other jobs may
\* be running: the session and settings_list are locals of this call.
check_space_usage_fire ==
    /\ spPc = "idle"
    /\ \E raised \in BOOLEAN :
          IF raised
          THEN /\ spPc' = "done"
               /\ spList' = <<>>
               /\ spRaised' = {<<"settings", 0>>}
               /\ escaped' = JobLevelHandler("space")
               /\ db_sessions' = CloseSession(db_sessions \cup {"space"}, "space", "query_failed")
          ELSE /\ spPc' = "users"
               /\ spList' = SpaceSettingsList
               /\ spRaised' = {}
               /\ db_sessions' = db_sessions \cup {"space"}
               /\ UNCHANGED escaped
    /\ UNCHANGED <<spFridges, spUser, spVisited, spEvaluated, spCalls>>
    /\ UNCHANGED <<schedVars, dataVars, apiVars, expVars, moVars>>

\* The next user of the loop: the query of the user's fridges.
check_space_usage_user ==
    /\ spPc = "users"
    /\ spList # <<>>
    /\ LET u == Head(spList)
       IN /\ spVisited' = Append(spVisited, u)
          /\ spList' = Tail(spList)
          /\ \E raised \in BOOLEAN :
                IF raised
                THEN /\ spRaised' = spRaised \cup {<<"user", u>>}
                     /\ UNCHANGED <<spPc, spFridges, spUser>>
                ELSE /\ spPc' = "fridges"
                     /\ spFridges' = FridgesOf(u)
                     /\ spUser' = u
                     /\ UNCHANGED spRaised
    /\ UNCHANGED <<spEvaluated, spCalls>>
    /\ UNCHANGED <<schedVars, dataVars, apiVars, resVars, expVars, moVars>>

\* One iteration of the per-fridge loop.
check_space_usage_fridge ==
    /\ spPc = "fridges"
    /\ spFridges # <<>>
    /\ LET f == Head(spFridges)
           usage_percentage == UsagePercentage(ItemCount(f))
       IN \E raised \in BOOLEAN :
             IF raised
             THEN /\ spRaised' = spRaised \cup {<<"fridge", f>>}
                  /\ spPc' = SpaceFridgeError(Tail(spFridges)).pc
                  /\ spFridges' = SpaceFridgeError(Tail(spFridges)).fridges
                  /\ UNCHANGED <<spEvaluated, spCalls>>
             ELSE /\ spEvaluated' = spEvaluated \cup {f}
                  /\ spCalls' =
                        IF AtOrOverThreshold(usage_percentage,
                              notification_settings[spUser].space_warning_threshold)
                        THEN Append(spCalls, [to |-> line_user_id(spUser),
                                              user_id |-> spUser,
                                              fridge_id |-> f,
                                              usage_percentage |-> usage_percentage])
                        ELSE spCalls
                  /\ spFridges' = Tail(spFridges)
                  /\ UNCHANGED <<spPc, spRaised>>
    /\ UNCHANGED <<spList, spUser, spVisited>>
    /\ UNCHANGED <<schedVars, dataVars, apiVars, resVars, expVars, moVars>>

\* The fridges of the user are done: on to the next user.
check_space_usage_user_done ==
    /\ spPc = "fridges"
    /\ spFridges = <<>>
    /\ spPc' = "users"
    /\ UNCHANGED <<spList, spFridges, spUser, spVisited, spRaised, spEvaluated, spCalls>>
    /\ UNCHANGED <<schedVars, dataVars, apiVars, resVars, expVars, moVars>>

\* The loop is over: the closing log line and db.close().
check_space_usage_end ==
    /\ spPc = "users"
    /\ spList = <<>>
    /\ spPc' = "done"
    /\ db_sessions' = CloseSession(db_sessions, "space", "completed")
    /\ UNCHANGED <<spList, spFridges, spUser, spVisited, spRaised, spEvaluated, spCalls>>
    /\ UNCHANGED <<schedVars, dataVars, apiVars, escaped, expVars, moVars>>

SpaceIdle ==
    /\ spPc = "idle"
    /\ spList = <<>>
    /\ spFridges = <<>>
    /\ spUser = 0
    /\ spVisited = <<>>
    /\ spRaised = {}
    /\ spEvaluated = {}
    /\ spCalls = <<>>

(***************************************************************************)
(* The monthly report: send_monthly_stats_to_all_users() and the manual    *)
(* send-all route                                                          *)
(***************************************************************************)

\* db.query(Fridge.user_id).distinct().all()
UsersWithFridge == Ascending({Fridge_user_id(f) : f \in FridgeIds})

\* db.query(Fridge).filter(Fridge.user_id == user_id).first()
FirstFridge(u) == Head(FridgesOf(u))

\* The result of calculate_user_monthly_stats(user_id) when no query raises:
\* the record identifies the user and the fridge the figures are about.
CalculateUserMonthlyStats(u) == [user_id |-> u, fridge_id |-> FirstFridge(u)]

\* LineBot._get_line_user_id(user_id): "" stands for None.
GetLineUserId(user_id) == IF user_id = 1 THEN "U1234567890abcdef" ELSE ""

\* get_all_users_monthly_stats(): the query of the users; when it raises the
\* result is [] and the caller stops at "if not all_stats".
MonthlyBegin ==
    /\ NoJobRunning
    /\ moPc = "idle"
    /\ \E raised \in BOOLEAN :
          IF raised
          THEN /\ moPc' = "done"
               /\ moUsers' = <<>>
               /\ moFailed' = {0}
          ELSE /\ moPc' = "compute"
               /\ moUsers' = UsersWithFridge
               /\ moFailed' = {}
    /\ UNCHANGED <<all_stats, moList, success_count, coroutines, pushes>>
    /\ UNCHANGED <<schedVars, dataVars, apiVars, resVars, expVars, spVars, moPrev>>

\* The scheduler fires the job.
send_monthly_stats_to_all_users_begin ==
    /\ moTrigger' = "scheduler"
    /\ MonthlyBegin

\* POST /stats/monthly/send-all
send_all_monthly_notifications_begin ==
    /\ moTrigger' = "manual"
    /\ MonthlyBegin

\* get_all_users_monthly_stats(), one user: calculate_user_monthly_stats()
\* returns None when a query raises, and only a non-None result is kept.
get_all_users_monthly_stats_user ==
    /\ moPc = "compute"
    /\ moUsers # <<>>
    /\ LET u == Head(moUsers)
       IN \E raised \in BOOLEAN :
             IF raised
             THEN /\ moFailed' = moFailed \cup {u}
                  /\ UNCHANGED all_stats
             ELSE /\ all_stats' = Append(all_stats, CalculateUserMonthlyStats(u))
                  /\ UNCHANGED moFailed
    /\ moUsers' = Tail(moUsers)
    /\ UNCHANGED <<moPc, moTrigger, moList, success_count, coroutines, pushes>>
    /\ UNCHANGED <<schedVars, dataVars, apiVars, resVars, expVars, spVars, moPrev>>

\* all_stats is complete: nothing to send, or on to the dispatch. The route
\* queues one background task per entry and returns; the tasks run next.
get_all_users_monthly_stats_return ==
    /\ moPc = "compute"
    /\ moUsers = <<>>
    /\ moPc' = IF all_stats = <<>> THEN "done"
               ELSE IF moTrigger = "scheduler" THEN "dispatch"
               ELSE "tasks"
    /\ moList' = all_stats
    /\ UNCHANGED <<moTrigger, moUsers, moFailed, all_stats, success_count,
                   coroutines, pushes>>
    /\ UNCHANGED <<schedVars, dataVars, apiVars, resVars, expVars, spVars, moPrev>>

\* The job's loop, one entry: send_monthly_stats_notification is an async
\* method and the job, a plain function, calls it without awaiting: the call
\* returns a coroutine object, whose body never runs; the object is truthy,
\* so the entry is counted as a success.
send_monthly_stats_to_all_users_user ==
    /\ moPc = "dispatch"
    /\ moList # <<>>
    /\ coroutines' = Append(coroutines, Head(moList))
    /\ success_count' = success_count + 1
    /\ moList' = Tail(moList)
    /\ UNCHANGED <<moPc, moTrigger, moUsers, moFailed, all_stats, pushes>>
    /\ UNCHANGED <<schedVars, dataVars, apiVars, resVars, expVars, spVars, moPrev>>

\* _send_monthly_stats_notification(), a background task of the route, which
\* awaits send_monthly_stats_notification: the LINE id is looked up and, when
\* there is one, the message is pushed (the push may be refused by LINE).
send_monthly_stats_notification_task ==
    /\ moPc = "tasks"
    /\ moList # <<>>
    /\ LET stats == Head(moList)
           to == GetLineUserId(stats.user_id)
       IN IF to = ""
          THEN UNCHANGED pushes
          ELSE \E delivered \in BOOLEAN :
                  pushes' = Append(pushes, [to |-> to, user_id |-> stats.user_id,
                                            stats |-> stats, delivered |-> delivered])
    /\ moList' = Tail(moList)
    /\ UNCHANGED <<moPc, moTrigger, moUsers, moFailed, all_stats, success_count,
                   coroutines>>
    /\ UNCHANGED <<schedVars, dataVars, apiVars, resVars, expVars, spVars, moPrev>>

\* The loop (or the task queue) is exhausted.
monthly_report_end ==
    /\ moPc \in {"dispatch", "tasks"}
    /\ moList = <<>>
    /\ moPc' = "done"
    /\ UNCHANGED <<moTrigger, moUsers, moFailed, all_stats, moList, success_count,
                   coroutines, pushes>>
    /\ UNCHANGED <<schedVars, dataVars, apiVars, resVars, expVars, spVars, moPrev>>

\* The job fires again the next month, and the route can be called at any
\* time: a second run of the report on the same store, the first one kept for
\* comparison. Every run starts from fresh locals.
NoRun == [trigger |-> "none", all_stats |-> <<>>, pushes |-> <<>>, success_count |-> 0]

monthly_report_again ==
    /\ moPc = "done"
    /\ moPrev = NoRun
    /\ moPrev' = [trigger |-> moTrigger, all_stats |-> all_stats,
                  pushes |-> pushes, success_count |-> success_count]
    /\ moPc' = "idle"
    /\ moTrigger' = "none"
    /\ moUsers' = <<>>
    /\ moFailed' = {}
    /\ all_stats' = <<>>
    /\ moList' = <<>>
    /\ success_count' = 0
    /\ coroutines' = <<>>
    /\ pushes' = <<>>
    /\ UNCHANGED <<schedVars, dataVars, apiVars, resVars, expVars, spVars>>

MonthlyIdle ==
    /\ moPrev = NoRun
    /\ moPc = "idle"
    /\ moTrigger = "none"
    /\ moUsers = <<>>
    /\ moFailed = {}
    /\ all_stats = <<>>
    /\ moList = <<>>
    /\ success_count = 0
    /\ coroutines = <<>>
    /\ pushes = <<>>

\* No session is open and nothing has reached the executor.
ResIdle == db_sessions = {} /\ escaped = {}

JobsIdle == ExpiryIdle /\ SpaceIdle /\ MonthlyIdle /\ ResIdle

(***************************************************************************)
(* The statistics functions of monthly_stats_service.py                    *)
(***************************************************************************)

\* ---- the rows handed to _calculate_stats ----

\* price is kept in cents; NoPrice stands for a NULL price.
NoPrice == -1

\* A NULL archived_at; a datetime is a date and an hour of that day.
NoDateTime == [date |-> NoDate, hour |-> 0]

DateTime(date, hour) == [date |-> date, hour |-> hour]

\* "" stands for None in disposal_reason and in category.
StatsItem(id, price, disposal_reason, expiry_date, archived_at, category) ==
    [id |-> id, price |-> price, disposal_reason |-> disposal_reason,
     expiry_date |-> expiry_date, archived_at |-> archived_at,
     category |-> category]

\* ---- _calculate_stats: the classification of one archived item ----

\* A classification by the dates alone, whatever the disposal_reason.
ClassifyByDates(item) ==
    IF item.expiry_date # NoDate /\ item.archived_at # NoDateTime
    THEN IF DateLE(item.archived_at.date, item.expiry_date) THEN "used" ELSE "wasted"
    ELSE "used"

\* A classification in which an item archived on its expiry date is wasted.
ClassifyExpiryDayWasted(item) ==
    IF item.disposal_reason = "used" THEN "used"
    ELSE IF item.disposal_reason = "wasted" THEN "wasted"
    ELSE IF item.expiry_date # NoDate /\ item.archived_at # NoDateTime
         THEN IF DateLT(item.archived_at.date, item.expiry_date)
              THEN "used"
              ELSE "wasted"
         ELSE "used"

\* A classification that looks at the dates only when no reason is recorded:
\* an item with any other reason is appended to neither list.
ClassifyKnownReasons(item) ==
    IF item.disposal_reason = "used" THEN "used"
    ELSE IF item.disposal_reason = "wasted" THEN "wasted"
    ELSE IF item.disposal_reason # "" THEN "neither"
    ELSE IF item.expiry_date # NoDate /\ item.archived_at # NoDateTime
         THEN IF DateLE(item.archived_at.date, item.expiry_date)
              THEN "used"
              ELSE "wasted"
         ELSE "used"

\* The branch of the loop body an item takes: "used" when it is appended to
\* used_items, "wasted" when it is appended to wasted_items.
Classify(item) ==
    IF item.disposal_reason = "used" THEN "used"
    ELSE IF item.disposal_reason = "wasted" THEN "wasted"
    ELSE IF item.expiry_date # NoDate /\ item.archived_at # NoDateTime
         THEN IF DateLE(item.archived_at.date, item.expiry_date)
              THEN "used"
              ELSE "wasted"
         ELSE "used"

IsUsed(item) == Classify(item) = "used"

IsWasted(item) == Classify(item) = "wasted"

used_items(archived) == SelectSeq(archived, IsUsed)

\* A wasted list that takes every archived item.
EveryItem(archived) == archived

wasted_items(archived) == SelectSeq(archived, IsWasted)

\* The stored price taken as it is, a NULL not replaced.
PriceAsStored(item) == item.price

\* item.price or 0
PriceOr0(item) == IF item.price = NoPrice THEN 0 ELSE item.price

\* sum(item.price or 0 for item in items)
RECURSIVE SumPrice(_)
SumPrice(items) ==
    IF items = <<>> THEN 0 ELSE PriceOr0(Head(items)) + SumPrice(Tail(items))

\* ---- (money / total_purchased * 100) if total_purchased > 0 else 0 ----

\* The rate as a binary64 value x: x approximates 100 * money / total, and
\* err is the side on which it misses it (-1 below, 0 exact, +1 above). The
\* side is worked out where a comparison or a rounding below can see it, that
\* is when c = 100 * money / total is a multiple of 0.05 (j = 20 * c); any
\* other value is further from the thresholds and from the rounding ties
\* than the error of the two operations. With M the 53-bit significand of
\* money / total and delta its error (DivisionError), the exact product
\* 100 * fl(money / total) sits at a / 20 + 100 * delta / (total * 2^g) units
\* in the last place above the double just below c, where a / 20 is the
\* fraction of c in those units and g the difference of the two exponents;
\* the product is then rounded to the nearest double.
RateError(money, total) ==
    LET j == (2000 * money) \div total
        e1 == Exponent(money, total)
        e2 == Exponent(j, 20)
        g == e2 - e1
        a == ((j % 20) * Pow2Mod(52 - e2, 20)) % 20
        delta == DivisionError(money, total)
        unit == total * Pow2(g)
        at == a * unit + 2000 * delta
    IN IF a # 0
       THEN IF at > 10 * unit THEN 1 ELSE -1
       ELSE IF 2000 * delta > 10 * unit THEN 1
            ELSE IF IsPow2(j \div 20) /\ (j % 20 = 0)
                 THEN IF 4000 * delta < 0 - 10 * unit THEN -1 ELSE 0
                 ELSE IF 2000 * delta < 0 - 10 * unit THEN -1 ELSE 0

\* A rate with no special case for an empty total: the division is made by
\* the total or, when it is 0, by one cent.
RateOfAnyTotal(money, total) ==
    [num |-> 100 * money, den |-> IF total > 0 THEN total ELSE 1, err |-> 0]

Rate(money, total) ==
    IF total > 0
    THEN [num |-> 100 * money, den |-> total,
          err |-> IF money > 0 /\ (2000 * money) % total = 0
                  THEN RateError(money, total) ELSE 0]
    ELSE [num |-> 0, den |-> 1, err |-> 0]

\* rate >= k, rate > k, rate <= k and rate == k for an integer k
RateGE(rate, k) ==
    \/ rate.num > k * rate.den
    \/ rate.num = k * rate.den /\ rate.err >= 0

RateGT(rate, k) ==
    \/ rate.num > k * rate.den
    \/ rate.num = k * rate.den /\ rate.err > 0

RateLE(rate, k) == ~RateGT(rate, k)

RateEQ(rate, k) == rate.num = k * rate.den /\ rate.err = 0

\* round(rate, 1), in tenths: the nearest tenth of the binary64 value; for a
\* rate halfway between two tenths the side is that of err, and the even
\* tenth when the binary64 value is the halfway point itself.
Round1(rate) ==
    LET twenty == 20 * rate.num
        low == ((twenty \div rate.den) - 1) \div 2
    IN IF twenty % rate.den = 0 /\ (twenty \div rate.den) % 2 = 1
       THEN IF rate.err > 0 THEN low + 1
            ELSE IF rate.err < 0 THEN low
            ELSE low + (low % 2)
       ELSE (twenty + rate.den) \div (2 * rate.den)

\* ---- _calculate_stats: the most wasted category ----

\* item.category or '未分類'
Uncategorized == "uncategorized"

CategoryOf(item) == IF item.category = "" THEN Uncategorized ELSE item.category

\* The keys of wasted_categories in insertion order: a category enters the
\* dict when its first wasted item is met.
RECURSIVE CategoryKeys(_)
CategoryKeys(wasted) ==
    IF wasted = <<>> THEN <<>>
    ELSE LET before == CategoryKeys(SubSeq(wasted, 1, Len(wasted) - 1))
             c == CategoryOf(wasted[Len(wasted)])
         IN IF \E i \in 1..Len(before) : before[i] = c
            THEN before ELSE Append(before, c)

\* wasted_categories[c]
CategoryCount(wasted, c) ==
    Cardinality({i \in 1..Len(wasted) : CategoryOf(wasted[i]) = c})

\* The maximum taken with the last of the keys with the largest count.
MostWastedLastOfTies(wasted) ==
    LET keys == CategoryKeys(wasted)
        IsMax(i) == \A k \in 1..Len(keys) :
                        CategoryCount(wasted, keys[k]) <= CategoryCount(wasted, keys[i])
    IN IF keys = <<>> THEN ""
       ELSE keys[CHOOSE i \in 1..Len(keys) :
                    IsMax(i) /\ \A k \in (i + 1)..Len(keys) : ~IsMax(k)]

\* max(wasted_categories, key=wasted_categories.get) if wasted_categories
\* else None: max keeps the first of the keys with the largest count. ""
\* stands for None.
MostWastedCategory(wasted) ==
    LET keys == CategoryKeys(wasted)
        IsMax(i) == \A k \in 1..Len(keys) :
                        CategoryCount(wasted, keys[k]) <= CategoryCount(wasted, keys[i])
    IN IF keys = <<>> THEN ""
       ELSE keys[CHOOSE i \in 1..Len(keys) :
                    IsMax(i) /\ \A k \in 1..(i - 1) : ~IsMax(k)]

\* ---- _generate_suggestions ----

\* One entry of the list: the message slot, and the category it names.
Suggestion(slot, category) == [slot |-> slot, category |-> category]

\* The tiers tested from the lowest one up: the first one reached wins.
PraiseOfLowestTier(save_rate) ==
    IF RateGE(save_rate, 20) THEN "praise_20"
    ELSE IF RateGE(save_rate, 40) THEN "praise_40"
    ELSE IF RateGE(save_rate, 60) THEN "praise_60"
    ELSE IF RateGE(save_rate, 70) THEN "praise_70"
    ELSE IF RateGE(save_rate, 80) THEN "praise_80"
    ELSE IF RateGE(save_rate, 90) THEN "praise_90"
    ELSE "praise_else"

\* The praise of the save-rate tier.
PraiseOf(save_rate) ==
    IF RateGE(save_rate, 90) THEN "praise_90"
    ELSE IF RateGE(save_rate, 80) THEN "praise_80"
    ELSE IF RateGE(save_rate, 70) THEN "praise_70"
    ELSE IF RateGE(save_rate, 60) THEN "praise_60"
    ELSE IF RateGE(save_rate, 40) THEN "praise_40"
    ELSE IF RateGE(save_rate, 20) THEN "praise_20"
    ELSE "praise_else"

\* An achievement granted up to a waste rate of 30.
AchievementUpTo30(waste_rate) ==
    IF RateEQ(waste_rate, 0) THEN <<Suggestion("zero_waste", "")>>
    ELSE IF RateLE(waste_rate, 5) THEN <<Suggestion("near_zero_waste", "")>>
    ELSE IF RateLE(waste_rate, 30) THEN <<Suggestion("low_waste", "")>>
    ELSE <<>>

\* The achievement of the waste-rate tier, if any.
AchievementOf(waste_rate) ==
    IF RateEQ(waste_rate, 0) THEN <<Suggestion("zero_waste", "")>>
    ELSE IF RateLE(waste_rate, 5) THEN <<Suggestion("near_zero_waste", "")>>
    ELSE IF RateLE(waste_rate, 15) THEN <<Suggestion("low_waste", "")>>
    ELSE <<>>

\* A tip given for every waste rate, whenever there is a category.
TipAtAnyRate(waste_rate, most_wasted_category) ==
    IF most_wasted_category = "" THEN <<>>
    ELSE IF RateGT(waste_rate, 30)
         THEN <<Suggestion("tip_portion", most_wasted_category)>>
         ELSE <<Suggestion("tip_quantity", most_wasted_category)>>

\* The tip about the most wasted category, if any.
TipOf(waste_rate, most_wasted_category) ==
    IF RateGT(waste_rate, 30)
    THEN IF most_wasted_category # ""
         THEN <<Suggestion("tip_portion", most_wasted_category)>> ELSE <<>>
    ELSE IF RateGT(waste_rate, 15)
         THEN IF most_wasted_category # ""
              THEN <<Suggestion("tip_quantity", most_wasted_category)>> ELSE <<>>
         ELSE <<>>

ClosingOf(save_rate) ==
    IF RateGE(save_rate, 70) THEN "closing_keep" ELSE "closing_improve"

\* suggestions[3:]
AfterThree(suggestions) == SubSeq(suggestions, 4, Len(suggestions))

\* suggestions[:3]
FirstThree(suggestions) == SubSeq(suggestions, 1, Min(3, Len(suggestions)))

GenerateSuggestions(save_rate, waste_rate, most_wasted_category) ==
    FirstThree(<<Suggestion(PraiseOf(save_rate), "")>>
               \o AchievementOf(waste_rate)
               \o TipOf(waste_rate, most_wasted_category)
               \o <<Suggestion(ClosingOf(save_rate), "")>>)

\* ---- _calculate_stats ----

\* The dict returned. The amounts being in cents, round(amount, 2) changes
\* nothing; the rates are in tenths of a percent.
CalculateStats(archived, purchased) ==
    LET used == used_items(archived)
        wasted == wasted_items(archived)
        saved_money == SumPrice(used)
        wasted_money == SumPrice(wasted)
        total_purchased == SumPrice(purchased)
        save_rate == Rate(saved_money, total_purchased)
        waste_rate == Rate(wasted_money, total_purchased)
        most_wasted_category == MostWastedCategory(wasted)
    IN [saved_money |-> saved_money,
        wasted_money |-> wasted_money,
        total_purchased |-> total_purchased,
        save_rate |-> Round1(save_rate),
        waste_rate |-> Round1(waste_rate),
        used_count |-> Len(used),
        wasted_count |-> Len(wasted),
        purchased_count |-> Len(purchased),
        most_wasted_category |-> most_wasted_category,
        suggestions |-> GenerateSuggestions(save_rate, waste_rate,
                                            most_wasted_category)]

\* ---- calculate_user_monthly_stats ----

\* The value returned: None, or the dict of _calculate_stats completed with
\* the user and the fridge.
NullResult == [kind |-> "null"]

StatsResult(stats, user_id, fridge_id) ==
    [kind |-> "stats", stats |-> stats, user_id |-> user_id, fridge_id |-> fridge_id]

\* What the function returns when one of its queries raises: the handler logs
\* the error and returns None.
StatsFailure == NullResult

\* calculate_user_monthly_stats(user_id): one of the queries may raise; a
\* user without a fridge gets None; otherwise the rows of the two queries go
\* through _calculate_stats. No exception leaves the function.
calculate_user_monthly_stats ==
    /\ stats_call.op = "none"
    /\ \E user_id \in Users : \E raised \in BOOLEAN :
          /\ stats_call' = [op |-> "calculate_user_monthly_stats",
                            user_id |-> user_id,
                            has_fridge |-> FridgesOf(user_id) # <<>>,
                            failed |-> raised, raised_to_caller |-> FALSE]
          /\ stats_result' =
                IF raised THEN StatsFailure
                ELSE IF FridgesOf(user_id) = <<>> THEN NullResult
                ELSE StatsResult(CalculateStats(archived_items, purchased_items),
                                 user_id, FirstFridge(user_id))
    /\ UNCHANGED <<archived_items, purchased_items>>
    /\ UNCHANGED <<schedVars, dataVars, settingsVars, fridgeVars, jobVars>>

\* ---- calculate_user_monthly_stats: the window and the two queries ----

\* A datetime: the date, the second of the day (0 for 00:00:00, 86399 for
\* 23:59:59) and the microsecond of that second.
Instant(date, second, microsecond) ==
    [date |-> date, second |-> second, microsecond |-> microsecond]

\* A NULL timestamp.
NoInstant == Instant(NoDate, 0, 0)

\* a <= b on datetimes
InstantLE(a, b) ==
    \/ DateLT(a.date, b.date)
    \/ /\ a.date = b.date
       /\ \/ a.second < b.second
          \/ a.second = b.second /\ a.microsecond <= b.microsecond

\* column.between(low, high): low <= column AND column <= high, which is not
\* true of a NULL.
Between(x, low, high) ==
    x # NoInstant /\ InstantLE(low, x) /\ InstantLE(x, high)

\* datetime(year, month, 1) and datetime(year, month, last_day, 23, 59, 59),
\* last_day from monthrange(year, month).
MonthRange(year, month) ==
    [month_start |-> Instant(Date(year, month, 1), 0, 0),
     month_end |-> Instant(Date(year, month, DaysInMonth(year, month)),
                           23 * 3600 + 59 * 60 + 59, 0)]

\* get_last_month_date_range(), now being datetime.now()
GetLastMonthDateRange(now) ==
    IF now.date.m = 1
    THEN MonthRange(now.date.y - 1, 12)
    ELSE MonthRange(now.date.y, now.date.m - 1)

\* No target_month is given.
NoMonth == [y |-> 0, m |-> 0]

\* A row of the food items as the two queries see it.
FoodRow(fridge_id, status, archived_at, purchase_date) ==
    [fridge_id |-> fridge_id, status |-> status, archived_at |-> archived_at,
     purchase_date |-> purchase_date]

\* The days around the ends of the months the calls are about.
BorderDates ==
    {Date(2025, 10, 31), Date(2025, 11, 1), Date(2025, 11, 30), Date(2025, 12, 1),
     Date(2025, 12, 31), Date(2026, 1, 1), Date(2024, 1, 31), Date(2024, 2, 1),
     Date(2024, 2, 29), Date(2024, 3, 1), Date(2025, 2, 28), Date(2025, 3, 1)}

BorderInstants ==
    {Instant(date, second, microsecond) :
        date \in BorderDates, second \in {0, 86399}, microsecond \in {0, 999999}}

\* datetime.now() at the call.
NowChoices ==
    {Instant(Date(2026, 1, 15), 36000, 0), Instant(Date(2025, 12, 1), 36000, 0),
     Instant(Date(2024, 3, 31), 86399, 999999), Instant(Date(2025, 3, 1), 0, 0)}

TargetMonthChoices == {NoMonth, [y |-> 2025, m |-> 11]}

\* An archived row has its archived_at and an active row has none; a
\* purchase_date is a day, taken at 00:00:00.
FoodRowChoices ==
    {FoodRow(fridge_id, "archived", archived_at, purchase_date) :
        fridge_id \in {1, 2}, archived_at \in BorderInstants,
        purchase_date \in {Instant(Date(2025, 12, 1), 0, 0),
                           Instant(Date(2025, 12, 31), 0, 0),
                           Instant(Date(2024, 2, 29), 0, 0)}}
    \cup {FoodRow(fridge_id, "active", NoInstant, purchase_date) :
             fridge_id \in {1, 2},
             purchase_date \in {Instant(date, 0, 0) : date \in BorderDates}}

\* calculate_user_monthly_stats(user_id, target_month), from the choice of
\* the window to the two queries, on a table that holds one row: the window
\* is that of target_month or, without one, that of the last month; the rows
\* of the user's first fridge are filtered by status and archived_at, and by
\* purchase_date.
calculate_user_monthly_stats_queries ==
    /\ stats_call.op = "none"
    /\ \E user_id \in {u \in Users : FridgesOf(u) # <<>>} : \E now \in NowChoices :
       \E target_month \in TargetMonthChoices : \E row \in FoodRowChoices :
          LET range == IF target_month # NoMonth
                       THEN MonthRange(target_month.y, target_month.m)
                       ELSE GetLastMonthDateRange(now)
              fridge == FirstFridge(user_id)
              archived == /\ row.fridge_id = fridge
                          /\ row.status = "archived"
                          /\ Between(row.archived_at, range.month_start, range.month_end)
              purchased == /\ row.fridge_id = fridge
                           /\ Between(row.purchase_date, range.month_start,
                                      range.month_end)
          IN /\ stats_call' = [op |-> "queries", user_id |-> user_id,
                               now |-> now, target_month |-> target_month,
                               row |-> row, fridge_id |-> fridge]
             /\ stats_result' = [kind |-> "rows", month_start |-> range.month_start,
                                 month_end |-> range.month_end,
                                 archived_items |-> IF archived THEN <<row>> ELSE <<>>,
                                 purchased_items |-> IF purchased THEN <<row>> ELSE <<>>]
    /\ UNCHANGED <<archived_items, purchased_items>>
    /\ UNCHANGED <<schedVars, dataVars, settingsVars, fridgeVars, jobVars>>

\* A rate handed to _generate_suggestions, in hundredths of a percent.
RateChoices ==
    {[num |-> v, den |-> 100, err |-> 0] :
        v \in {0, 1, 500, 501, 1500, 1501, 2000, 3000, 3001, 3999, 4000, 5999,
               6000, 6999, 7000, 7999, 8000, 8999, 9000, 10000, 25000}}

CategoryChoices == {"", "dairy"}

\* _generate_suggestions(save_rate, waste_rate, most_wasted_category), called
\* on its own.
generate_suggestions ==
    /\ stats_call.op = "none"
    /\ \E save_rate \in RateChoices : \E waste_rate \in RateChoices :
       \E most_wasted_category \in CategoryChoices :
          /\ stats_call' = [op |-> "_generate_suggestions",
                            save_rate |-> save_rate, waste_rate |-> waste_rate,
                            most_wasted_category |-> most_wasted_category]
          /\ stats_result' =
                [kind |-> "suggestions",
                 suggestions |-> GenerateSuggestions(save_rate, waste_rate,
                                                     most_wasted_category)]
    /\ UNCHANGED <<archived_items, purchased_items>>
    /\ UNCHANGED <<schedVars, dataVars, settingsVars, fridgeVars, jobVars>>


\* No call of the statistics functions is made.
StatsIdle ==
    /\ archived_items = <<>>
    /\ purchased_items = <<>>
    /\ stats_call = [op |-> "none"]
    /\ stats_result = [kind |-> "none"]

(***************************************************************************)
(* The notification-settings routes of routes/notifications.py             *)
(***************************************************************************)

\* The row created when a user has none (low_stock_* and notification_time,
\* which no job reads, are left out).
DefaultRow(user_id) == [user_id |-> user_id] @@ DefaultSettings

\* A query that finds no row, whatever the table holds.
NoStoredRows(rows, user_id) == <<>>

\* db.query(NotificationSettings).filter(user_id == user.id): .first() is
\* the head of the result, if there is one.
StoredRows(rows, user_id) ==
    SelectSeq(rows, LAMBDA r : r.user_id = user_id)

\* The position in the table of the row .first() returns.
FirstIndex(rows, user_id) ==
    CHOOSE i \in 1..Len(rows) :
        /\ rows[i].user_id = user_id
        /\ \A k \in 1..(i - 1) : rows[k].user_id # user_id

\* for field, value in update_data.items(): setattr(settings, field, value)
ApplyUpdate(row, update_data) ==
    [f \in DOMAIN row |-> IF f \in DOMAIN update_data THEN update_data[f] ELSE row[f]]

\* settings_update.model_dump(exclude_unset=True): the fields the request
\* supplies.
UpdateChoices ==
    { <<>>,
      [space_warning_threshold |-> 60],
      [expiry_warning_enabled |-> FALSE, expiry_warning_days |-> 7] }

\* The users of the User table; the caller 0 has no User row.
Callers == Users \cup {0}

CanRequest == Len(settings_log) < MaxRequests

Response(op, user_id, update_data, status, body) ==
    [op |-> op, user_id |-> user_id, update |-> update_data,
     status |-> status, body |-> body]

NoBody == <<>>

\* GET /notifications/settings: 404 without a User row; the stored row, or a
\* new row of defaults that is added and committed; 500 after a rollback when
\* the data store raises.
get_notification_settings ==
    /\ CanRequest
    /\ \E caller \in Callers : \E raised \in BOOLEAN :
          LET stored == StoredRows(settings_rows, caller)
          IN IF raised
             THEN /\ settings_log' = Append(settings_log,
                                            Response("get", caller, <<>>, 500, NoBody))
                  /\ UNCHANGED settings_rows
             ELSE IF caller = 0
             THEN /\ settings_log' = Append(settings_log,
                                            Response("get", caller, <<>>, 404, NoBody))
                  /\ UNCHANGED settings_rows
             ELSE IF stored # <<>>
             THEN /\ settings_log' = Append(settings_log,
                                            Response("get", caller, <<>>, 200, Head(stored)))
                  /\ UNCHANGED settings_rows
             ELSE /\ settings_rows' = Append(settings_rows, DefaultRow(caller))
                  /\ settings_log' = Append(settings_log,
                                            Response("get", caller, <<>>, 200,
                                                     DefaultRow(caller)))
    /\ UNCHANGED <<schedVars, dataVars, statsVars, fridgeVars, jobVars>>

\* PUT /notifications/settings: as above, the supplied fields then being set
\* on the stored or new row before the commit. A notification_time that does
\* not parse is a ValueError: rollback and 400; any other exception: rollback
\* and 500.
update_notification_settings ==
    /\ CanRequest
    /\ \E caller \in Callers : \E update_data \in UpdateChoices :
       \E raised \in {"nothing", "ValueError", "Exception"} :
          LET stored == StoredRows(settings_rows, caller)
          IN IF raised = "Exception"
             THEN /\ settings_log' = Append(settings_log,
                                            Response("update", caller, update_data, 500, NoBody))
                  /\ UNCHANGED settings_rows
             ELSE IF caller = 0
             THEN /\ settings_log' = Append(settings_log,
                                            Response("update", caller, update_data, 404, NoBody))
                  /\ UNCHANGED settings_rows
             ELSE IF raised = "ValueError"
             THEN /\ settings_log' = Append(settings_log,
                                            Response("update", caller, update_data, 400, NoBody))
                  /\ UNCHANGED settings_rows
             ELSE IF stored # <<>>
             THEN LET i == FirstIndex(settings_rows, caller)
                      row == ApplyUpdate(settings_rows[i], update_data)
                  IN /\ settings_rows' = [settings_rows EXCEPT ![i] = row]
                     /\ settings_log' = Append(settings_log,
                                               Response("update", caller, update_data, 200, row))
             ELSE LET row == ApplyUpdate(DefaultRow(caller), update_data)
                  IN /\ settings_rows' = Append(settings_rows, row)
                     /\ settings_log' = Append(settings_log,
                                               Response("update", caller, update_data, 200, row))
    /\ UNCHANGED <<schedVars, dataVars, statsVars, fridgeVars, jobVars>>

\* No request is served yet and no user has a row.
SettingsIdle ==
    /\ settings_rows = <<>>
    /\ settings_log = <<>>

(***************************************************************************)
(* PUT /fridges/{id}/compartments/reorder of routes/fridges.py             *)
(***************************************************************************)

\* What order_data.get(key) gives for a key that is missing or null.
NoKey == -1

\* One entry of compartment_orders, seen through its two get() calls.
OrderData(id, sort_order) == [id |-> id, sort_order |-> sort_order]

\* The table before any request: compartments 1 and 2 are in fridge 1 (of
\* user 1) and compartment 3 is in fridge 3 (of user 2).
CompartmentRows ==
    (1 :> [fridge_id |-> 1, sort_order |-> 0])
        @@ (2 :> [fridge_id |-> 1, sort_order |-> 1])
        @@ (3 :> [fridge_id |-> 3, sort_order |-> 0])

\* The loop over compartment_orders, on the rows as the session holds them:
\* an entry without id or sort_order raises HTTPException(400) and ends the
\* loop; otherwise the compartment of that id in fridge id, if there is one,
\* gets the new sort_order.
RECURSIVE UpdateOrders(_, _, _)
UpdateOrders(rows, compartment_orders, id) ==
    IF compartment_orders = <<>> THEN [rows |-> rows, raised |-> 0]
    ELSE LET order_data == Head(compartment_orders)
             compartment_id == order_data.id
             sort_order == order_data.sort_order
         IN IF compartment_id = NoKey \/ sort_order = NoKey
            THEN [rows |-> rows, raised |-> 400]
            ELSE IF compartment_id \in DOMAIN rows
                       /\ rows[compartment_id].fridge_id = id
                 THEN UpdateOrders([rows EXCEPT ![compartment_id].sort_order = sort_order],
                                   Tail(compartment_orders), id)
                 ELSE UpdateOrders(rows, Tail(compartment_orders), id)

\* except Exception as e: db.rollback() and HTTPException(500). The clause
\* catches whatever the try block raised, the HTTPException(400) of the loop
\* included; stored is the table as last committed.
ReorderFailure(stored, raised) == [status |-> 500, rows |-> stored]

OrderChoices ==
    LET entries == {OrderData(c, o) : c \in {1, 2, 3, NoKey}, o \in {7, NoKey}}
    IN {<<>>} \cup {<<e>> : e \in entries}
              \cup {<<e1, e2>> : e1 \in entries, e2 \in entries}

\* The handler: 404 when the fridge is not one of the caller's; the loop and
\* the commit; the rollback and 500 when the loop or the data store raises.
reorder_compartments ==
    /\ reorder_log = <<>>
    /\ \E id \in FridgeIds : \E user_id \in Users :
       \E compartment_orders \in OrderChoices : \E db_error \in BOOLEAN :
          LET run == UpdateOrders(compartments, compartment_orders, id)
              response ==
                 IF Fridge_user_id(id) # user_id
                 THEN [status |-> 404, rows |-> compartments]
                 ELSE IF run.raised # 0
                 THEN ReorderFailure(compartments, run.raised)
                 ELSE IF db_error
                 THEN ReorderFailure(compartments, 500)
                 ELSE [status |-> 200, rows |-> run.rows]
          IN /\ compartments' = response.rows
             /\ reorder_log' =
                   <<[id |-> id, user_id |-> user_id,
                      compartment_orders |-> compartment_orders,
                      db_error |-> db_error /\ Fridge_user_id(id) = user_id,
                      status |-> response.status, before |-> compartments]>>
    /\ UNCHANGED <<schedVars, dataVars, statsVars, settingsVars, jobVars>>

\* No reorder request is served yet.
FridgesIdle ==
    /\ compartments = CompartmentRows
    /\ reorder_log = <<>>

ApiIdle == StatsIdle /\ SettingsIdle /\ FridgesIdle

(***************************************************************************)
(* Data the runs are checked on                                            *)
(***************************************************************************)

TodayChoices == {Date(2026, 1, 1), Date(2025, 12, 29)}

ExpirySettingsChoices ==
    {DefaultSettings, Settings(TRUE, 1, TRUE, 80), Settings(FALSE, 3, TRUE, 80)}

ExpiryContents ==
    { <<>>,
      (Item("milk", "active", Date(2026, 1, 3)) :> 1)
         @@ (Item("egg", "active", Date(2025, 12, 30)) :> 1)
         @@ (Item("ham", "archived", Date(2026, 1, 2)) :> 1)
         @@ (Item("rice", "active", NoDate) :> 1),
      (Item("tofu", "active", Date(2026, 1, 4)) :> 2),
      (Item("jam", "active", Date(2026, 1, 5)) :> 1)
         @@ (Item("old", "archived", Date(2025, 12, 30)) :> 1) }

\* A store with every user on the default settings and no food item.
PlainData ==
    /\ today = Date(2026, 1, 1)
    /\ notification_settings = [u \in Users |-> DefaultSettings]
    /\ food_items = <<>>

ExpiryData ==
    /\ today \in TodayChoices
    /\ notification_settings \in [Users -> ExpirySettingsChoices]
    /\ \E content \in [FridgeIds -> ExpiryContents] : food_items = Table(content)

SpaceSettingsChoices ==
    {DefaultSettings, Settings(TRUE, 3, TRUE, 58), Settings(TRUE, 3, FALSE, 80)}

SpaceContents ==
    { <<>>,
      (Item("rice", "active", NoDate) :> 29)
         @@ (Item("ham", "archived", Date(2025, 12, 30)) :> 20),
      (Item("rice", "active", NoDate) :> 30),
      (Item("rice", "active", NoDate) :> 45)
         @@ (Item("ham", "archived", Date(2025, 12, 30)) :> 10) }

SpaceData ==
    /\ today = Date(2026, 1, 1)
    /\ notification_settings \in [Users -> SpaceSettingsChoices]
    /\ \E content \in [FridgeIds -> SpaceContents] : food_items = Table(content)

BatchSettingsChoices == {DefaultSettings, Settings(FALSE, 3, FALSE, 80)}

BatchContents ==
    { <<>>,
      (Item("milk", "active", Date(2026, 1, 3)) :> 45)
         @@ (Item("ham", "archived", Date(2026, 1, 2)) :> 1) }

BatchData ==
    /\ today = Date(2026, 1, 1)
    /\ notification_settings \in [Users -> BatchSettingsChoices]
    /\ \E content \in [FridgeIds -> BatchContents] : food_items = Table(content)

\* ---- the rows of the statistics window ----

\* One archived item, over every combination the classifier looks at.
ClassifierItems ==
    {StatsItem(1, price, disposal_reason, expiry_date, archived_at, category) :
        price \in {NoPrice, 5000},
        disposal_reason \in {"", "used", "wasted", "other"},
        expiry_date \in {NoDate, Date(2025, 12, 10), Date(2025, 12, 20)},
        archived_at \in {NoDateTime, DateTime(Date(2025, 12, 10), 23),
                         DateTime(Date(2025, 12, 15), 9),
                         DateTime(Date(2025, 12, 20), 0),
                         DateTime(Date(2025, 12, 21), 0)},
        category \in {"", "dairy"}}

\* The rows the aggregation is run on; 7 to 9 are purchases still active.
StatsRows ==
    <<StatsItem(1, 10000, "used", NoDate, DateTime(Date(2025, 12, 5), 12), "dairy"),
      StatsItem(2, 5000, "wasted", NoDate, DateTime(Date(2025, 12, 6), 12), "meat"),
      StatsItem(3, 1550, "used", Date(2025, 12, 1), DateTime(Date(2025, 12, 9), 8), ""),
      StatsItem(4, 2450, "wasted", Date(2025, 12, 30), DateTime(Date(2025, 12, 9), 8), ""),
      StatsItem(5, NoPrice, "", Date(2025, 12, 10), DateTime(Date(2025, 12, 15), 9), "meat"),
      StatsItem(6, 3000, "", Date(2025, 12, 20), DateTime(Date(2025, 12, 20), 23), "dairy"),
      StatsItem(7, 5000, "", Date(2026, 1, 20), NoDateTime, "dairy"),
      StatsItem(8, 0, "", NoDate, NoDateTime, ""),
      StatsItem(9, NoPrice, "", NoDate, NoDateTime, "")>>

\* The rows of the given ids, in the order of the ids.
Rows(ids) == [i \in 1..Len(ids) |-> StatsRows[ids[i]]]

PurchasedChoices ==
    {<<>>, <<1, 2, 3, 4, 5, 6>>, <<1, 2, 7>>, <<3, 4>>, <<8, 9>>,
     <<1, 2, 3, 4, 5, 6, 7, 8, 9>>, <<2>>, <<3, 4, 5, 6>>}

\* The archived rows of the window: the query has no ORDER BY, so the rows
\* come in the order of the ids or in another one.
ArchivedChoices ==
    {Ascending(ids) : ids \in SUBSET (1..6)}
        \cup {<<4, 2, 5>>, <<4, 5, 2>>, <<5, 4, 2>>, <<4, 2>>, <<6, 5, 4, 3, 2, 1>>}

StatsData ==
    \/ /\ \E item \in ClassifierItems : archived_items = <<item>>
       /\ purchased_items = <<>>
    \/ /\ \E ids \in ArchivedChoices : archived_items = Rows(ids)
       /\ \E ids \in PurchasedChoices : purchased_items = Rows(ids)

(***************************************************************************)
(* Specifications                                                          *)
(***************************************************************************)

\* The scheduler lifecycle, the job functions seen as opaque runs.
InitScheduler == SchedInit /\ PlainData /\ JobsIdle /\ ApiIdle

SpecScheduler == InitScheduler /\ [][SchedNext]_vars

\* One run of check_expiring_items() on a store of the data above.
InitExpiry == SchedInit /\ ExpiryData /\ JobsIdle /\ ApiIdle

NextExpiry ==
    \/ check_expiring_items_begin
    \/ check_expiring_items_user
    \/ check_expiring_items_end

SpecExpiry == InitExpiry /\ [][NextExpiry]_vars

\* One run of check_space_usage() on a store of the data above.
InitSpace == SchedInit /\ SpaceData /\ JobsIdle /\ ApiIdle

NextSpace ==
    \/ check_space_usage_begin
    \/ check_space_usage_user
    \/ check_space_usage_fridge
    \/ check_space_usage_user_done
    \/ check_space_usage_end

SpecSpace == InitSpace /\ [][NextSpace]_vars

\* The batch jobs and the manual send-all, each run at most once, one run
\* after another.
InitBatch == SchedInit /\ BatchData /\ JobsIdle /\ ApiIdle

NextBatch ==
    \/ check_expiring_items_begin
    \/ check_expiring_items_user
    \/ check_expiring_items_end
    \/ check_space_usage_begin
    \/ check_space_usage_user
    \/ check_space_usage_fridge
    \/ check_space_usage_user_done
    \/ check_space_usage_end
    \/ send_monthly_stats_to_all_users_begin
    \/ send_all_monthly_notifications_begin
    \/ get_all_users_monthly_stats_user
    \/ get_all_users_monthly_stats_return
    \/ send_monthly_stats_to_all_users_user
    \/ send_monthly_stats_notification_task
    \/ monthly_report_end

SpecBatch == InitBatch /\ [][NextBatch]_vars

\* The three job functions on a store where every user has both warnings
\* enabled and the fridges hold nothing but an archived item: what a run
\* goes through is decided by the users, the fridges and the calls that
\* raise.
JobsData ==
    /\ today = Date(2026, 1, 1)
    /\ notification_settings = [u \in Users |-> DefaultSettings]
    /\ food_items = Table([f \in FridgeIds |->
                              (Item("ham", "archived", Date(2026, 1, 2)) :> 1)])

InitJobs == SchedInit /\ JobsData /\ JobsIdle /\ ApiIdle

SpecJobs == InitJobs /\ [][NextBatch]_vars

\* The steps of a job function that has started.
ExpirySteps == check_expiring_items_user \/ check_expiring_items_end

SpaceSteps ==
    \/ check_space_usage_user
    \/ check_space_usage_fridge
    \/ check_space_usage_user_done
    \/ check_space_usage_end

MonthlySteps ==
    \/ get_all_users_monthly_stats_user
    \/ get_all_users_monthly_stats_return
    \/ send_monthly_stats_to_all_users_user
    \/ send_monthly_stats_notification_task
    \/ monthly_report_end

\* One call of calculate_user_monthly_stats() on the rows above.
InitStats ==
    /\ SchedInit /\ PlainData /\ JobsIdle
    /\ StatsData
    /\ stats_call = [op |-> "none"]
    /\ stats_result = [kind |-> "none"]
    /\ SettingsIdle /\ FridgesIdle

NextStats == calculate_user_monthly_stats

SpecStats == InitStats /\ [][NextStats]_vars

\* One call of _generate_suggestions().
InitSuggestions == SchedInit /\ PlainData /\ JobsIdle /\ ApiIdle

NextSuggestions == generate_suggestions

SpecSuggestions == InitSuggestions /\ [][NextSuggestions]_vars

\* One call of calculate_user_monthly_stats() seen up to its two queries.
InitWindow == SchedInit /\ PlainData /\ JobsIdle /\ ApiIdle

NextWindow == calculate_user_monthly_stats_queries

SpecWindow == InitWindow /\ [][NextWindow]_vars

\* One request to reorder the compartments of a fridge.
InitReorder == SchedInit /\ PlainData /\ JobsIdle /\ ApiIdle

NextReorder == reorder_compartments

SpecReorder == InitReorder /\ [][NextReorder]_vars

\* Requests to the notification-settings routes, on a table in which user 1
\* may already have a row of its own values.
InitSettings ==
    /\ SchedInit /\ PlainData /\ JobsIdle /\ StatsIdle /\ FridgesIdle
    /\ settings_rows \in {<<>>, <<[user_id |-> 1] @@ Settings(FALSE, 5, TRUE, 70)>>}
    /\ settings_log = <<>>

NextSettings ==
    \/ get_notification_settings
    \/ update_notification_settings

SpecSettings == InitSettings /\ [][NextSettings]_vars

\* The expiry scan and the space scan of 09:00, each in its own thread of the
\* executor, their steps interleaved.
ConcurrentData ==
    /\ today = Date(2026, 1, 1)
    /\ notification_settings \in [Users -> BatchSettingsChoices]
    /\ \E content \in [FridgeIds -> BatchContents] : food_items = Table(content)

InitConcurrent == SchedInit /\ ConcurrentData /\ JobsIdle /\ ApiIdle

NextConcurrent ==
    \/ check_expiring_items_fire
    \/ check_expiring_items_user
    \/ check_expiring_items_end
    \/ check_space_usage_fire
    \/ check_space_usage_user
    \/ check_space_usage_fridge
    \/ check_space_usage_user_done
    \/ check_space_usage_end

SpecConcurrent == InitConcurrent /\ [][NextConcurrent]_vars

\* The monthly report run twice on the same store, by either trigger.
InitMonthly == SchedInit /\ BatchData /\ JobsIdle /\ ApiIdle

NextMonthly ==
    \/ send_monthly_stats_to_all_users_begin
    \/ send_all_monthly_notifications_begin
    \/ get_all_users_monthly_stats_user
    \/ get_all_users_monthly_stats_return
    \/ send_monthly_stats_to_all_users_user
    \/ send_monthly_stats_notification_task
    \/ monthly_report_end
    \/ monthly_report_again

SpecMonthly == InitMonthly /\ [][NextMonthly]_vars

(***************************************************************************)
(* Scheduler lifecycle: properties                                         *)
(***************************************************************************)

Last(seq) == seq[Len(seq)]

\* A step in which a start_scheduler()/stop_scheduler() call was made.
CallMade == Len(trace') = Len(trace) + 1

\* C1: whenever the scheduler is running it holds exactly the three jobs
\* (expiry scan, space scan, monthly report), each id once, whatever sequence
\* of start_scheduler()/stop_scheduler() calls led there.
C1_ThreeJobsWhileRunning ==
    running => /\ Len(jobs) = 3
               /\ \A id \in JobIdSet : Count(jobs, id) = 1

\* start, start again (no second set of jobs), stop, start again: running
\* with the three jobs.
C1_Witness ==
    /\ running
    /\ Len(jobs) = 3
    /\ \E i \in 1..Len(trace) : \E j \in 1..Len(trace) :
          /\ i + 1 < j
          /\ trace[i].op = "start" /\ trace[i].outcome = "ok"
          /\ trace[i + 1].op = "start" /\ trace[i + 1].outcome = "noop"
          /\ trace[j].op = "stop" /\ trace[j].outcome = "ok"
          /\ j < Len(trace)
          /\ trace[j + 1].op = "start" /\ trace[j + 1].outcome = "ok"

\* C2: start_scheduler() on a running scheduler and stop_scheduler() on a
\* stopped one raise nothing and leave the running flag and the registered
\* (and queued) jobs as they were.
C2_RedundantCallsAreNoops ==
    [][ (CallMade /\ \/ Last(trace').op = "start" /\ running
                     \/ Last(trace').op = "stop" /\ ~running)
        => /\ Last(trace').outcome = "noop"
           /\ UNCHANGED <<running, jobs, pending>> ]_vars

C2_Witness ==
    \E i \in 1..Len(trace) : \E j \in 1..Len(trace) :
        /\ trace[i].op = "start" /\ trace[i].outcome = "noop"
        /\ trace[j].op = "stop" /\ trace[j].outcome = "noop"

\* C3: once stop_scheduler() has returned (the scheduler is stopped and no
\* caller is blocked in shutdown) no job execution is in flight: every run
\* that was executing when the stop began has completed.
C3_StopDrainsInflightJobs ==
    (call = "idle" /\ ~running) => inflight = {}

\* A stop that found job runs in flight, waited for them, and has returned.
C3_Witness ==
    /\ call = "idle"
    /\ ~running
    /\ trace # <<>>
    /\ Last(trace).op = "stop"
    /\ Last(trace).waited # {}

\* C4: the application reaches "started" only with the scheduler running; a
\* start_scheduler() in which add_job() or scheduler.start() raised ends the
\* startup instead.
C4_StartFailurePropagates ==
    [][ (lifespan = "created" /\ lifespan' # "created")
        => /\ (lifespan' = "started") <=> running'
           /\ (lifespan' = "failed") <=> (Last(trace').outcome = "raised") ]_vars

\* A startup whose start_scheduler() raised: the process is not started.
C4_Witness ==
    /\ lifespan = "failed"
    /\ ~running
    /\ Last(trace).op = "start"
    /\ Last(trace).outcome = "raised"

(***************************************************************************)
(* Expiry scan: properties                                                 *)
(***************************************************************************)

\* The rows the expiry warning of user u is about: active, in a fridge of u,
\* with an expiry date no later than today + expiry_warning_days.
QualifyingRows(u) ==
    {r \in DOMAIN food_items :
        /\ Fridge_user_id(r.fridge_id) = u
        /\ r.status = "active"
        /\ r.expiry_date # NoDate
        /\ ToOrdinal(r.expiry_date)
              <= ToOrdinal(today) + notification_settings[u].expiry_warning_days}

ExpiryCallsFor(u) == {i \in 1..Len(expCalls) : expCalls[i].user_id = u}

ExpiryRunUndisturbed(u) == 0 \notin expRaised /\ u \notin expRaised

\* n is the signed number of days from date a to date b.
IsDaysFromTo(a, b, n) ==
    IF n >= 0 THEN AddDays(a, n) = b ELSE AddDays(b, -n) = a

\* C5: at the end of an expiry scan, send_expiry_notification has been called
\* for a user (once, with the user's LINE address) only if the user has the
\* expiry warning enabled and owns an active item with an expiry date
\* <= today + expiry_warning_days; and it has been called for every such user
\* whose iteration (and the settings query before it) raised no error.
C5_ExpiryNotifiedIffQualifying ==
    expPc = "done" =>
        \A u \in Users :
            /\ Cardinality(ExpiryCallsFor(u)) <= 1
            /\ \A i \in ExpiryCallsFor(u) : expCalls[i].to = line_user_id(u)
            /\ ExpiryCallsFor(u) # {} =>
                  /\ notification_settings[u].expiry_warning_enabled
                  /\ QualifyingRows(u) # {}
            /\ ( /\ notification_settings[u].expiry_warning_enabled
                 /\ QualifyingRows(u) # {}
                 /\ ExpiryRunUndisturbed(u) ) => ExpiryCallsFor(u) # {}

\* A finished scan that notified one user, and left out a user with the
\* warning disabled who owns a qualifying item.
C5_Witness ==
    /\ expPc = "done"
    /\ expRaised = {}
    /\ \E u \in Users : ExpiryCallsFor(u) # {}
    /\ \E u \in Users : /\ ~notification_settings[u].expiry_warning_enabled
                        /\ QualifyingRows(u) # {}
                        /\ ExpiryCallsFor(u) = {}
    /\ \E u \in Users : /\ notification_settings[u].expiry_warning_enabled
                        /\ QualifyingRows(u) = {}
                        /\ ExpiryCallsFor(u) = {}

\* C6: the items passed to send_expiry_notification are exactly the user's
\* qualifying rows, each with its name, its ISO expiry date and days_remaining
\* = expiry_date - today as a signed number (2 for 2026-01-03 and -2 for
\* 2025-12-30 seen from 2026-01-01); archived rows and rows without an expiry
\* date are not among them.
C6_ExpiryItemsExact ==
    \A i \in 1..Len(expCalls) :
        LET c == expCalls[i]
            rows == QualifyingRows(c.user_id)
        IN /\ BagCardinality(c.items) = SumCopies(food_items, rows)
           /\ \A r \in rows : \E d \in DOMAIN c.items :
                 /\ d.name = r.name
                 /\ d.expiry_date = IsoFormat(r.expiry_date)
                 /\ IsDaysFromTo(today, r.expiry_date, d.days_remaining)
           /\ \A d \in DOMAIN c.items : \E r \in rows :
                 /\ d.name = r.name
                 /\ d.expiry_date = IsoFormat(r.expiry_date)
                 /\ IsDaysFromTo(today, r.expiry_date, d.days_remaining)
           /\ today = Date(2026, 1, 1) =>
                 \A d \in DOMAIN c.items :
                     /\ d.expiry_date = "2026-01-03" => d.days_remaining = 2
                     /\ d.expiry_date = "2025-12-30" => d.days_remaining = -2

\* Seen from 2026-01-01 with a 3-day horizon: one call carrying the item
\* expiring 2026-01-03 (2 days left) and the one expired 2025-12-30 (-2).
C6_Witness ==
    /\ today = Date(2026, 1, 1)
    /\ \E i \in 1..Len(expCalls) :
          /\ notification_settings[expCalls[i].user_id].expiry_warning_days = 3
          /\ \E d \in DOMAIN expCalls[i].items :
                d.expiry_date = "2026-01-03" /\ d.days_remaining = 2
          /\ \E d \in DOMAIN expCalls[i].items :
                d.expiry_date = "2025-12-30" /\ d.days_remaining = -2

(***************************************************************************)
(* Batch jobs: failure isolation                                           *)
(***************************************************************************)

SpaceCallsFor(f) == {i \in 1..Len(spCalls) : spCalls[i].fridge_id = f}

StatsOf(u) == {i \in 1..Len(all_stats) : all_stats[i].user_id = u}

\* C7: in each batch job an error raised while one user is processed stays in
\* that user's iteration: when the run ends (its scope query having
\* succeeded) the loop has gone through every user of the scope, the failing
\* ones and all those after them; in the monthly report every user owning a
\* fridge has had the statistics computed or has failed alone, and every
\* computed entry has been dispatched.
C7_UserErrorDoesNotStopBatch ==
    /\ (expPc = "done" /\ 0 \notin expRaised) => expVisited = ExpirySettingsList
    /\ (spPc = "done" /\ <<"settings", 0>> \notin spRaised)
          => spVisited = SpaceSettingsList
    /\ (moPc = "done" /\ 0 \notin moFailed) =>
          /\ \A i \in 1..Len(UsersWithFridge) :
                LET u == UsersWithFridge[i]
                IN (u \in moFailed) # (StatsOf(u) # {})
          /\ moTrigger = "scheduler" => coroutines = all_stats

\* The three jobs have run, each with a user that raised followed by a user
\* that was processed (and, in the two scans, notified).
C7_Witness ==
    /\ expPc = "done" /\ spPc = "done" /\ moPc = "done"
    /\ moTrigger = "scheduler"
    /\ \E i \in 1..Len(expVisited) : \E j \in 1..Len(expVisited) :
          /\ i < j
          /\ expVisited[i] \in expRaised
          /\ ExpiryCallsFor(expVisited[j]) # {}
    /\ \E i \in 1..Len(spVisited) : \E j \in 1..Len(spVisited) :
          /\ i < j
          /\ <<"user", spVisited[i]>> \in spRaised
          /\ \E k \in 1..Len(spCalls) : spCalls[k].user_id = spVisited[j]
    /\ 1 \in moFailed
    /\ StatsOf(2) # {}
    /\ Len(coroutines) = 1

(***************************************************************************)
(* Space scan: properties                                                  *)
(***************************************************************************)

\* C8: in a finished space scan every fridge of a processed user whose own
\* item-count query did not fail has been evaluated and, if over the
\* threshold, warned about, also when the query of another fridge of the same
\* user failed.
C8_FridgeErrorIsolated ==
    spPc = "done" =>
        \A i \in 1..Len(spVisited) :
            LET u == spVisited[i]
            IN <<"user", u>> \notin spRaised =>
                  \A f \in {g \in FridgeIds : Fridge_user_id(g) = u} :
                      <<"fridge", f>> \notin spRaised =>
                          /\ f \in spEvaluated
                          /\ AtOrOverThreshold(UsagePercentage(ItemCount(f)),
                                notification_settings[u].space_warning_threshold)
                                => SpaceCallsFor(f) # {}

\* C9: in a finished space scan in which nothing raised, send_space_warning
\* has been called for a fridge if and only if its owner has the space
\* warning enabled and (active items / 50) * 100 >= space_warning_threshold.
C9_SpaceWarningIffAtThreshold ==
    (spPc = "done" /\ spRaised = {}) =>
        \A f \in FridgeIds :
            (SpaceCallsFor(f) # {}) <=>
                /\ notification_settings[Fridge_user_id(f)].space_warning_enabled
                /\ ItemCount(f) * 100 >=
                      notification_settings[Fridge_user_id(f)].space_warning_threshold
                          * DEFAULT_MAX_ITEMS

(***************************************************************************)
(* Monthly report: properties                                              *)
(***************************************************************************)

\* C10: when the scheduled monthly report has finished, for every user with
\* a fridge whose statistics are not null the message has been pushed to that
\* user's LINE address with that user's statistics.
C10_MonthlyStatsPushed ==
    (moPc = "done" /\ moTrigger = "scheduler") =>
        \A i \in 1..Len(all_stats) :
            \E j \in 1..Len(pushes) :
                /\ pushes[j].to = line_user_id(all_stats[i].user_id)
                /\ pushes[j].stats = all_stats[i]

\* The sends a run performed: addressee and statistics of each push.
Sends(ps) == [i \in 1..Len(ps) |-> [to |-> ps[i].to, stats |-> ps[i].stats]]

\* C11: two runs of the monthly report on the same store, one by the
\* scheduler and one by the manual send-all, that computed the same
\* statistics have performed the same sends.
C11_TriggersEquivalent ==
    (/\ moPc = "done"
     /\ moPrev.trigger \notin {"none", moTrigger}
     /\ moPrev.all_stats = all_stats)
        => Sends(moPrev.pushes) = Sends(pushes)

(***************************************************************************)
(* Monthly statistics: properties                                          *)
(***************************************************************************)

StatsCalled == stats_call.op = "calculate_user_monthly_stats"

\* C12: calculate_user_monthly_stats for a user without a fridge returns the
\* null "no data" result and raises nothing, and a call that failed (a query
\* raised) returns something else than that no-data result.
C12_NoDataDistinctFromFailure ==
    StatsCalled =>
        /\ (~stats_call.failed /\ ~stats_call.has_fridge)
              => (stats_result = NullResult /\ ~stats_call.raised_to_caller)
        /\ stats_call.failed => stats_result # NullResult

StatsOk == StatsCalled /\ stats_result.kind = "stats"

\* The number of rows of a list with the given disposal_reason.
CountReason(items, reason) ==
    Cardinality({i \in 1..Len(items) : items[i].disposal_reason = reason})

\* C13: every archived item with disposal_reason 'used' is counted as used
\* and every one with disposal_reason 'wasted' as wasted, whatever its
\* expiry_date and archived_at: the two counts are at least the numbers of
\* such items, and are those numbers when every item has one of the two
\* reasons.
C13_ReasonDecides ==
    StatsOk =>
        LET used == CountReason(archived_items, "used")
            wasted == CountReason(archived_items, "wasted")
            others == Len(archived_items) - used - wasted
        IN /\ stats_result.stats.used_count \in used..(used + others)
           /\ stats_result.stats.wasted_count \in wasted..(wasted + others)

\* A single item marked 'used' that was archived after its expiry date, and a
\* single item marked 'wasted' archived before it, have been counted.
C13_Witness ==
    /\ StatsOk
    /\ Len(archived_items) = 1
    /\ \/ /\ archived_items[1].disposal_reason = "used"
          /\ archived_items[1].expiry_date = Date(2025, 12, 10)
          /\ archived_items[1].archived_at.date = Date(2025, 12, 21)
          /\ stats_result.stats.used_count = 1
       \/ /\ archived_items[1].disposal_reason = "wasted"
          /\ archived_items[1].expiry_date = NoDate
          /\ stats_result.stats.wasted_count = 1

ArchivedLate(item) ==
    /\ item.expiry_date # NoDate
    /\ item.archived_at # NoDateTime
    /\ ToOrdinal(item.archived_at.date) > ToOrdinal(item.expiry_date)

CountLate(items) == Cardinality({i \in 1..Len(items) : ArchivedLate(items[i])})

\* C14: among archived items without a disposal_reason, the wasted ones are
\* exactly those with both dates present and archived_at.date() after
\* expiry_date; the others (archived on or before the expiry date, or with no
\* expiry date) are used.
C14_DatesDecideWithoutReason ==
    (StatsOk /\ CountReason(archived_items, "") = Len(archived_items)) =>
        /\ stats_result.stats.wasted_count = CountLate(archived_items)
        /\ stats_result.stats.used_count =
              Len(archived_items) - CountLate(archived_items)

\* An item without a reason archived on the very day it expires was counted
\* as used.
C14_Witness ==
    /\ StatsOk
    /\ Len(archived_items) = 1
    /\ archived_items[1].disposal_reason = ""
    /\ archived_items[1].expiry_date = Date(2025, 12, 20)
    /\ archived_items[1].archived_at = DateTime(Date(2025, 12, 20), 0)
    /\ stats_result.stats.used_count = 1
    /\ stats_result.stats.wasted_count = 0

\* The classification the rules of C13 and C14 give.
ExpectedWasted(item) ==
    \/ item.disposal_reason = "wasted"
    \/ item.disposal_reason # "used" /\ ArchivedLate(item)

\* The sum of the prices of the rows at the given positions of a list, a
\* missing price counted as 0.
RECURSIVE TotalAt(_, _)
TotalAt(items, S) ==
    IF S = {} THEN 0
    ELSE LET i == CHOOSE i \in S : TRUE
         IN (IF items[i].price = NoPrice THEN 0 ELSE items[i].price)
            + TotalAt(items, S \ {i})

\* C15: saved_money, wasted_money and total_purchased are the sums of the
\* prices (a missing price counted as 0) of the used items, of the wasted
\* items and of the purchased items, and used_count and wasted_count the
\* sizes of the two sets; archived [{100, used}, {50, wasted}] with purchases
\* of 200 gives 100, 50, 50.0 %, 25.0 %, 1 and 1 (amounts in cents, rates in
\* tenths).
C15_SumsAndCounts ==
    StatsOk =>
        LET wastedAt == {i \in 1..Len(archived_items) : ExpectedWasted(archived_items[i])}
            usedAt == (1..Len(archived_items)) \ wastedAt
            stats == stats_result.stats
        IN /\ stats.saved_money = TotalAt(archived_items, usedAt)
           /\ stats.wasted_money = TotalAt(archived_items, wastedAt)
           /\ stats.total_purchased = TotalAt(purchased_items, 1..Len(purchased_items))
           /\ stats.used_count = Cardinality(usedAt)
           /\ stats.wasted_count = Cardinality(wastedAt)
           /\ (archived_items = Rows(<<1, 2>>) /\ purchased_items = Rows(<<1, 2, 7>>))
                 => /\ stats.saved_money = 10000
                    /\ stats.wasted_money = 5000
                    /\ stats.total_purchased = 20000
                    /\ stats.save_rate = 500
                    /\ stats.waste_rate = 250
                    /\ stats.used_count = 1
                    /\ stats.wasted_count = 1

\* The statistics of the example have been computed, and so have those of a
\* window with items without a price.
C15_Witness ==
    /\ StatsOk
    /\ \/ archived_items = Rows(<<1, 2>>) /\ purchased_items = Rows(<<1, 2, 7>>)
       \/ /\ archived_items = Rows(<<2, 5>>)
          /\ purchased_items = Rows(<<8, 9>>)
          /\ stats_result.stats.wasted_money = 5000

\* C16: when total_purchased is 0 (no purchase in the window, or only
\* purchases with a price of 0 or none), the call returns statistics (no
\* division by zero) with save_rate = 0 and waste_rate = 0, also when
\* saved_money or wasted_money is positive.
C16_ZeroTotalGivesZeroRates ==
    (/\ StatsCalled
     /\ ~stats_call.failed
     /\ stats_call.has_fridge
     /\ TotalAt(purchased_items, 1..Len(purchased_items)) = 0)
        => /\ stats_result.kind = "stats"
           /\ stats_result.stats.save_rate = 0
           /\ stats_result.stats.waste_rate = 0

\* Statistics with positive saved and wasted amounts over purchases that are
\* all without a price.
C16_Witness ==
    /\ StatsOk
    /\ purchased_items = Rows(<<8, 9>>)
    /\ stats_result.stats.total_purchased = 0
    /\ stats_result.stats.saved_money > 0
    /\ stats_result.stats.wasted_money > 0
    /\ stats_result.stats.save_rate = 0

\* Every archived row of the window is one of its purchased rows.
ArchivedArePurchased ==
    \A i \in 1..Len(archived_items) :
        \E k \in 1..Len(purchased_items) : purchased_items[k].id = archived_items[i].id

\* C17: when every archived item of the window is one of its purchased items
\* (prices being non-negative), each of save_rate and waste_rate lies between
\* 0 and 100, and their sum is at most 100 up to the rounding of the two
\* rates to one decimal (at most 100.1; rates in tenths).
C17_RatesBounded ==
    (StatsOk /\ ArchivedArePurchased) =>
        LET stats == stats_result.stats
        IN /\ stats.save_rate \in 0..1000
           /\ stats.waste_rate \in 0..1000
           /\ stats.save_rate + stats.waste_rate <= 1000 + 1

\* The two rates are 38.75 and 61.25: rounded to 38.8 and 61.3, their sum
\* reaches 100.1.
C17_Witness ==
    /\ StatsOk
    /\ archived_items = Rows(<<3, 4>>)
    /\ purchased_items = Rows(<<3, 4>>)
    /\ stats_result.stats.save_rate + stats_result.stats.waste_rate = 1001

SuggestionsCalled == stats_call.op = "_generate_suggestions"

\* C18: for every save_rate >= 0, waste_rate >= 0 and most_wasted_category
\* (present or null), _generate_suggestions returns a list of at least 1 and
\* at most 3 entries.
C18_OneToThreeSuggestions ==
    SuggestionsCalled => Len(stats_result.suggestions) \in 1..3

\* A call with a high waste rate and a category: praise, tip and closing.
C18_Witness ==
    /\ SuggestionsCalled
    /\ stats_call.waste_rate.num > 30 * stats_call.waste_rate.den
    /\ stats_call.most_wasted_category # ""
    /\ Len(stats_result.suggestions) = 3

(***************************************************************************)
(* Notification settings: properties                                       *)
(***************************************************************************)

RowsOf(rows, user_id) == {i \in 1..Len(rows) : rows[i].user_id = user_id}

\* The request served by the step.
Served == Last(settings_log')

ExpiryCallsAlone ==
    LET users == Ascending({u \in Users :
                               /\ \E i \in 1..Len(expVisited) : expVisited[i] = u
                               /\ u \notin expRaised
                               /\ QualifyingRows(u) # {}})
    IN [i \in 1..Len(users) |->
           [to |-> line_user_id(users[i]), user_id |-> users[i],
            items |-> ItemsData(ExpiringItems(users[i]))]]

\* For the space scan one call per fridge evaluated that is at or over its
\* owner's threshold, in the order of the fridges (the ids of the fridges
\* grow with those of their owners).
SpaceCallsAlone ==
    LET fridges == Ascending({f \in spEvaluated :
                                 AtOrOverThreshold(UsagePercentage(ItemCount(f)),
                                    notification_settings[Fridge_user_id(f)]
                                        .space_warning_threshold)})
    IN [i \in 1..Len(fridges) |->
           [to |-> line_user_id(Fridge_user_id(fridges[i])),
            user_id |-> Fridge_user_id(fridges[i]),
            fridge_id |-> fridges[i],
            usage_percentage |-> UsagePercentage(ItemCount(fridges[i]))]]

\* The fridges a space scan running alone evaluates, given what raised: those
\* of the enabled users whose iteration did not raise, up to the user's first
\* fridge whose count raised.
FridgesEvaluatedAlone ==
    {f \in FridgeIds :
        /\ notification_settings[Fridge_user_id(f)].space_warning_enabled
        /\ <<"user", Fridge_user_id(f)>> \notin spRaised
        /\ \A g \in FridgeIds :
              (Fridge_user_id(g) = Fridge_user_id(f) /\ g <= f)
                  => <<"fridge", g>> \notin spRaised}

\* C20: with the expiry scan and the space scan running at the same time,
\* under every interleaving of their steps, each scan has made exactly the
\* notifier calls it makes alone on the same store, at every point of its
\* run, and at its end it has covered the same users and fridges.
C20_ConcurrentScansIndependent ==
    /\ expCalls = ExpiryCallsAlone
    /\ spCalls = SpaceCallsAlone
    /\ (expPc = "done" /\ 0 \notin expRaised)
          => expVisited = Ascending({u \in Users :
                                        notification_settings[u].expiry_warning_enabled})
    /\ (spPc = "done" /\ <<"settings", 0>> \notin spRaised)
          => /\ spVisited = Ascending({u \in Users :
                                          notification_settings[u].space_warning_enabled})
             /\ spEvaluated = FridgesEvaluatedAlone

\* Both scans are in the middle of their loops and each has already called
\* the notifier.
C20_Witness ==
    /\ expPc = "loop"
    /\ expList # <<>>
    /\ spPc = "fridges"
    /\ spFridges # <<>>
    /\ Len(expCalls) >= 1
    /\ Len(spCalls) >= 1

(***************************************************************************)
(* The monthly report: the success count                                   *)
(***************************************************************************)

\* The sends of the run that LINE accepted.
Delivered(ps) == {j \in 1..Len(ps) : ps[j].delivered}

\* C21: when the scheduled monthly report has ended, success_count is the
\* number of entries of the batch whose push was actually delivered: it lies
\* between 0 and the batch total, and an entry whose push failed or whose
\* LINE id could not be resolved is not counted.
C21_SuccessCountIsDelivered ==
    (moPc = "done" /\ moTrigger = "scheduler") =>
        /\ success_count \in 0..Len(all_stats)
        /\ success_count = Cardinality(Delivered(pushes))
        /\ success_count
              <= Cardinality({i \in 1..Len(all_stats) :
                                GetLineUserId(all_stats[i].user_id) # ""})

(***************************************************************************)
(* _generate_suggestions: the content of the list                          *)
(***************************************************************************)

\* The slots of the list returned, in order.
Slots == [i \in 1..Len(stats_result.suggestions) |->
             stats_result.suggestions[i].slot]

ClosingSlots == {"closing_keep", "closing_improve"}

\* C22: the list returned by _generate_suggestions ends with the closing
\* message, the "keep it up" one exactly when save_rate >= 70 and the other
\* one otherwise; the cut to the first three entries never removes it.
C22_ClosingAlwaysLast ==
    SuggestionsCalled =>
        LET r == stats_call.save_rate
        IN /\ Len(Slots) >= 1
           /\ Slots[Len(Slots)] \in ClosingSlots
           /\ Slots[Len(Slots)] = "closing_keep" <=> r.num >= 70 * r.den
           /\ \A i \in 1..(Len(Slots) - 1) : Slots[i] \notin ClosingSlots

\* A call where the list is full: a low waste rate, with a category at hand,
\* and the closing message is the third entry.
C22_Witness ==
    /\ SuggestionsCalled
    /\ stats_call.waste_rate.num <= 15 * stats_call.waste_rate.den
    /\ stats_call.most_wasted_category # ""
    /\ stats_call.save_rate.num >= 70 * stats_call.save_rate.den
    /\ Len(Slots) = 3
    /\ Slots[3] = "closing_keep"

AchievementSlots == {"zero_waste", "near_zero_waste", "low_waste"}

TipSlots == {"tip_portion", "tip_quantity"}

\* The positions of the list that hold a slot of S.
Holding(S) == {i \in 1..Len(Slots) : Slots[i] \in S}

\* C23: the list holds exactly one achievement when waste_rate <= 15, the
\* one of the tier (= 0, <= 5, <= 15), and none otherwise; it holds a tip
\* naming most_wasted_category exactly when waste_rate > 15 and there is a
\* category, the > 30 tip rather than the > 15 one when both apply; an
\* achievement and a tip never appear together.
C23_AchievementOrTip ==
    SuggestionsCalled =>
        LET w == stats_call.waste_rate
            c == stats_call.most_wasted_category
            low == w.num <= 15 * w.den
            tipped == ~low /\ c # ""
        IN /\ Cardinality(Holding(AchievementSlots)) = IF low THEN 1 ELSE 0
           /\ \A i \in Holding(AchievementSlots) :
                 Slots[i] = IF w.num = 0 THEN "zero_waste"
                            ELSE IF w.num <= 5 * w.den THEN "near_zero_waste"
                            ELSE "low_waste"
           /\ Cardinality(Holding(TipSlots)) = IF tipped THEN 1 ELSE 0
           /\ \A i \in Holding(TipSlots) :
                 /\ stats_result.suggestions[i].category = c
                 /\ Slots[i] = IF w.num > 30 * w.den THEN "tip_portion"
                               ELSE "tip_quantity"
           /\ Holding(AchievementSlots) = {} \/ Holding(TipSlots) = {}

\* A call with a waste rate between 15 and 30 and a category: the tip about
\* the quantity is in the list and no achievement is.
C23_Witness ==
    /\ SuggestionsCalled
    /\ stats_call.waste_rate.num > 15 * stats_call.waste_rate.den
    /\ stats_call.waste_rate.num <= 30 * stats_call.waste_rate.den
    /\ stats_call.most_wasted_category = "dairy"
    /\ Slots[2] = "tip_quantity"
    /\ stats_result.suggestions[2].category = "dairy"
    /\ Holding(AchievementSlots) = {}

\* The seven tiers of the save rate: the floor of the tier and its message;
\* the last tier has no floor.
PraiseTiers ==
    <<[floor |-> 90, slot |-> "praise_90"], [floor |-> 80, slot |-> "praise_80"],
      [floor |-> 70, slot |-> "praise_70"], [floor |-> 60, slot |-> "praise_60"],
      [floor |-> 40, slot |-> "praise_40"], [floor |-> 20, slot |-> "praise_20"],
      [floor |-> 0, slot |-> "praise_else"]>>

PraiseSlots == {PraiseTiers[t].slot : t \in 1..Len(PraiseTiers)}

\* C24: the first entry of the list is a praise, the one of the highest tier
\* (>= 90, >= 80, >= 70, >= 60, >= 40, >= 20, else) that save_rate reaches,
\* and no other entry is a praise.
C24_OnePraiseFirst ==
    SuggestionsCalled =>
        LET r == stats_call.save_rate
            Reached(t) == t = Len(PraiseTiers)
                             \/ r.num >= PraiseTiers[t].floor * r.den
        IN /\ Holding(PraiseSlots) = {1}
           /\ \E t \in 1..Len(PraiseTiers) :
                 /\ Slots[1] = PraiseTiers[t].slot
                 /\ Reached(t)
                 /\ \A h \in 1..(t - 1) : ~Reached(h)

\* A call with a save rate of 80 or more but below 90: several tiers are
\* reached and the praise is the one of the 80 tier.
C24_Witness ==
    /\ SuggestionsCalled
    /\ stats_call.save_rate.num >= 80 * stats_call.save_rate.den
    /\ stats_call.save_rate.num < 90 * stats_call.save_rate.den
    /\ Slots[1] = "praise_80"

(***************************************************************************)
(* _calculate_stats: the most wasted category                              *)
(***************************************************************************)

\* The positions of the archived rows that the classifier counts as wasted.
WastedAt == {i \in 1..Len(archived_items) : ExpectedWasted(archived_items[i])}

\* The label a row is counted under.
LabelAt(i) ==
    IF archived_items[i].category = "" THEN Uncategorized
    ELSE archived_items[i].category

\* How many wasted rows carry the label, and where the first of them is.
Occurrences(c) == Cardinality({i \in WastedAt : LabelAt(i) = c})

FirstAt(c) == CHOOSE i \in WastedAt :
                 /\ LabelAt(i) = c
                 /\ \A k \in WastedAt : LabelAt(k) = c => i <= k

\* C25: most_wasted_category is the label with the most occurrences among the
\* wasted items, an item without a category counted under the sentinel, and
\* the label met first when several have the most; it is null exactly when
\* no item is wasted.
C25_MostWastedCategory ==
    StatsOk =>
        LET m == stats_result.stats.most_wasted_category
        IN /\ m = "" <=> WastedAt = {}
           /\ WastedAt # {} =>
                 /\ \E i \in WastedAt : LabelAt(i) = m
                 /\ \A j \in WastedAt :
                       \/ Occurrences(LabelAt(j)) < Occurrences(m)
                       \/ /\ Occurrences(LabelAt(j)) = Occurrences(m)
                          /\ FirstAt(m) <= FirstAt(LabelAt(j))

\* Two labels are tied and the one met first, the sentinel of a row without a
\* category, is returned.
C25_Witness ==
    /\ StatsOk
    /\ Cardinality(WastedAt) = 2
    /\ \E i, j \in WastedAt : i < j /\ LabelAt(i) = Uncategorized /\ LabelAt(j) = "meat"
    /\ stats_result.stats.most_wasted_category = Uncategorized

(***************************************************************************)
(* calculate_user_monthly_stats: the default window                        *)
(***************************************************************************)

QueriesCalled == stats_call.op = "queries"

\* The calendar month before the one of the given datetime.
PreviousMonth(now) ==
    IF now.date.m = 1 THEN [y |-> now.date.y - 1, m |-> 12]
    ELSE [y |-> now.date.y, m |-> now.date.m - 1]

\* The timestamp is an instant of the given month.
InMonth(x, month) ==
    x # NoInstant /\ x.date.y = month.y /\ x.date.m = month.m

\* C26: without a target_month the window is the calendar month before the
\* current one (December of the year before in January), from the first
\* instant of its first day to the end of its last day, of the right length:
\* a row of the fridge archived at any instant of that month is returned by
\* the query of the archived items and a row archived in another month is
\* not, and likewise for the purchases.
C26_WindowIsPreviousMonth ==
    (QueriesCalled /\ stats_call.target_month = NoMonth) =>
        LET month == PreviousMonth(stats_call.now)
            row == stats_call.row
            mine == row.fridge_id = stats_call.fridge_id
        IN /\ stats_result.month_start = Instant(Date(month.y, month.m, 1), 0, 0)
           /\ InMonth(stats_result.month_end, month)
           /\ InMonth(Instant(NextDay(stats_result.month_end.date), 0, 0), month) = FALSE
           /\ (mine /\ row.status = "archived") =>
                 (stats_result.archived_items = <<row>>
                     <=> InMonth(row.archived_at, month))
           /\ mine =>
                 (stats_result.purchased_items = <<row>>
                     <=> InMonth(row.purchase_date, month))

(***************************************************************************)
(* The job functions: termination, exceptions and sessions                 *)
(***************************************************************************)

ExpiryRunning == expPc = "loop"

SpaceRunning == spPc \in {"users", "fridges"}

MonthlyRunning == moPc \in {"compute", "dispatch", "tasks"}

\* A run that has ended has closed its session and, unless its first query
\* failed, has gone through every user of its list.
JobsEndClean ==
    /\ escaped = {}
    /\ ~ExpiryRunning => "expiry" \notin db_sessions
    /\ ~SpaceRunning => "space" \notin db_sessions
    /\ (expPc = "done" /\ 0 \notin expRaised) => expVisited = ExpirySettingsList
    /\ (spPc = "done" /\ <<"settings", 0>> \notin spRaised)
          => spVisited = SpaceSettingsList
    /\ (moPc = "done" /\ moTrigger = "scheduler") => moList = <<>>

\* A job function that has started has a next step to take.
JobsCanStep ==
    /\ ExpiryRunning => ENABLED ExpirySteps
    /\ SpaceRunning => ENABLED SpaceSteps
    /\ MonthlyRunning => ENABLED MonthlySteps

\* What a run has left to do, as a number: the users (and, for the space
\* scan, the fridges of the current user) still to visit and the closing
\* step; 0 once the run has ended.
ExpiryLeft == IF ExpiryRunning THEN Len(expList) + 1 ELSE 0

SpaceLeft ==
    LET perUser == Cardinality(FridgeIds) + 2
    IN IF spPc = "users" THEN perUser * Len(spList) + 1
       ELSE IF spPc = "fridges" THEN perUser * Len(spList) + Len(spFridges) + 2
       ELSE 0

MonthlyLeft ==
    IF moPc = "compute" THEN 2 * Len(moUsers) + Len(all_stats) + 2
    ELSE IF moPc \in {"dispatch", "tasks"} THEN Len(moList) + 1
    ELSE 0

\* Every step of a run that has started leaves it less to do.
JobsAdvance ==
    /\ ExpiryRunning => (ExpiryLeft' < ExpiryLeft \/ UNCHANGED expVars)
    /\ SpaceRunning => (SpaceLeft' < SpaceLeft \/ UNCHANGED spVars)
    /\ MonthlyRunning => (MonthlyLeft' < MonthlyLeft \/ UNCHANGED moVars)

\* C27: every run of a job function ends, having gone through its list of
\* users: a run that has started can always take a step and every step
\* leaves it less to do; no exception reaches the executor, also when the
\* first query of the run fails, and the session of the expiry scan and of
\* the space scan is closed however the run ends.
C27_JobsRunToCompletion ==
    /\ []JobsEndClean
    /\ []JobsCanStep
    /\ [][JobsAdvance]_vars

\* The expiry scan has ended on a failure of its first query, and the space
\* scan has ended after the failure of a user in the middle of its list.
C27_Witness ==
    /\ expPc = "done" /\ 0 \in expRaised
    /\ spPc = "done" /\ Len(spVisited) >= 2
    /\ \E u \in Users : <<"user", u>> \in spRaised /\ u # Last(spVisited)
    /\ db_sessions = {}

(***************************************************************************)
(* _calculate_stats: the classifier covers the archived items              *)
(***************************************************************************)

\* C28: every archived item is counted in exactly one of the used set and
\* the wasted set: used_count + wasted_count is the number of archived
\* items, whatever the disposal_reason (a value other than 'used' and
\* 'wasted' included), the expiry_date and the archived_at of each.
C28_ClassifierPartitions ==
    StatsOk =>
        /\ stats_result.stats.used_count + stats_result.stats.wasted_count
              = Len(archived_items)
        /\ stats_result.stats.used_count \in 0..Len(archived_items)
        /\ stats_result.stats.wasted_count \in 0..Len(archived_items)

\* An item with a disposal_reason that is neither 'used' nor 'wasted',
\* archived after its expiry date, has been counted, as wasted.
C28_Witness ==
    /\ StatsOk
    /\ Len(archived_items) = 1
    /\ archived_items[1].disposal_reason = "other"
    /\ archived_items[1].expiry_date = Date(2025, 12, 10)
    /\ archived_items[1].archived_at = DateTime(Date(2025, 12, 15), 9)
    /\ stats_result.stats.used_count = 0
    /\ stats_result.stats.wasted_count = 1

(***************************************************************************)
(* Reordering the compartments: properties                                 *)
(***************************************************************************)

\* The list holds an entry without id or without sort_order.
Malformed(compartment_orders) ==
    \E i \in 1..Len(compartment_orders) :
        compartment_orders[i].id = NoKey \/ compartment_orders[i].sort_order = NoKey

\* C29: a reorder request on a fridge of the caller whose list holds an entry
\* without id or sort_order is answered 400, not 500, and leaves the
\* sort_order of every compartment as it was, those named before the
\* malformed entry included; and no request changes a compartment of
\* another fridge than the one addressed.
C29_MalformedReorderRejected ==
    \A i \in 1..Len(reorder_log) :
        LET request == reorder_log[i]
        IN /\ (/\ Fridge_user_id(request.id) = request.user_id
               /\ Malformed(request.compartment_orders)
               /\ ~request.db_error)
                 => (request.status = 400 /\ compartments = request.before)
           /\ \A c \in DOMAIN compartments :
                 request.before[c].fridge_id # request.id
                    => compartments[c] = request.before[c]

=============================================================================
